---- MODULE Spec2Model ----
(***************************************************************************)
(* Model of the design-token audit script, src/audit-tokens.js: the two    *)
(* token trees, the shared results collector, the six checkers run in      *)
(* sequence, the summary step (score and verdict) and the process exit.    *)
(*                                                                         *)
(* JavaScript strings are sequences of one-character strings, so that      *)
(* startsWith, endsWith, slice, join and length are computed on the        *)
(* characters.  JSON values are tagged records; objects keep their keys in *)
(* insertion order.  Numbers are exact rationals num/den.                  *)
(***************************************************************************)
EXTENDS Integers, Sequences, FiniteSets, TLC

VARIABLES primitiveTokens, semanticTokens, results, pc, score, verdict, exitCode,
          previous, returned

vars == <<primitiveTokens, semanticTokens, results, pc, score, verdict, exitCode,
          previous, returned>>

----------------------------------------------------------------------------
(* String literals of the script and of the token corpora. *)
s_color == <<"c", "o", "l", "o", "r">>
s_brand == <<"b", "r", "a", "n", "d">>
s_600 == <<"6", "0", "0">>
s_900 == <<"9", "0", "0">>
s_text == <<"t", "e", "x", "t">>
s_primitive == <<"p", "r", "i", "m", "i", "t", "i", "v", "e">>
s_semantic == <<"s", "e", "m", "a", "n", "t", "i", "c">>
s_default == <<"d", "e", "f", "a", "u", "l", "t">>
s_hover == <<"h", "o", "v", "e", "r">>
s_pressed == <<"p", "r", "e", "s", "s", "e", "d">>
s_active == <<"a", "c", "t", "i", "v", "e">>
s_focus == <<"f", "o", "c", "u", "s">>
s_disabled == <<"d", "i", "s", "a", "b", "l", "e", "d">>
s_visited == <<"v", "i", "s", "i", "t", "e", "d">>
s_selected == <<"s", "e", "l", "e", "c", "t", "e", "d">>
s_dimension == <<"d", "i", "m", "e", "n", "s", "i", "o", "n">>
s_fontFamily == <<"f", "o", "n", "t", "F", "a", "m", "i", "l", "y">>
s_number == <<"n", "u", "m", "b", "e", "r">>
s_typography == <<"t", "y", "p", "o", "g", "r", "a", "p", "h", "y">>
s_shadow == <<"s", "h", "a", "d", "o", "w">>
s_string == <<"s", "t", "r", "i", "n", "g">>
s_hsl == <<"h", "s", "l">>
s_px == <<"p", "x">>
s_em == <<"e", "m">>
s_rem == <<"r", "e", "m">>
s_colorSpace == <<"c", "o", "l", "o", "r", "S", "p", "a", "c", "e">>
s_components == <<"c", "o", "m", "p", "o", "n", "e", "n", "t", "s">>
s_alpha == <<"a", "l", "p", "h", "a">>
s_hex == <<"h", "e", "x">>
s_value == <<"v", "a", "l", "u", "e">>
s_unit == <<"u", "n", "i", "t">>
s_fontSize == <<"f", "o", "n", "t", "S", "i", "z", "e">>
s_fontWeight == <<"f", "o", "n", "t", "W", "e", "i", "g", "h", "t">>
s_lineHeight == <<"l", "i", "n", "e", "H", "e", "i", "g", "h", "t">>
s_offsetX == <<"o", "f", "f", "s", "e", "t", "X">>
s_offsetY == <<"o", "f", "f", "s", "e", "t", "Y">>
s_blur == <<"b", "l", "u", "r">>
s_opacity == <<"o", "p", "a", "c", "i", "t", "y">>
s_contrast == <<"c", "o", "n", "t", "r", "a", "s", "t">>
s_background == <<"b", "a", "c", "k", "g", "r", "o", "u", "n", "d">>
s_border == <<"b", "o", "r", "d", "e", "r">>
s_neutral == <<"n", "e", "u", "t", "r", "a", "l">>
s_base == <<"b", "a", "s", "e">>
s_body == <<"b", "o", "d", "y">>
s_md == <<"m", "d">>
s_heading == <<"h", "e", "a", "d", "i", "n", "g">>
s_primary == <<"p", "r", "i", "m", "a", "r", "y">>
s_secondary == <<"s", "e", "c", "o", "n", "d", "a", "r", "y">>
s_success == <<"s", "u", "c", "c", "e", "s", "s">>
s_warning == <<"w", "a", "r", "n", "i", "n", "g">>
s_error == <<"e", "r", "r", "o", "r">>
s_white == <<"w", "h", "i", "t", "e">>
s_black == <<"b", "l", "a", "c", "k">>
s_spacing == <<"s", "p", "a", "c", "i", "n", "g">>
s_token == <<"t", "o", "k", "e", "n">>
s_style == <<"s", "t", "y", "l", "e">>
s_link == <<"l", "i", "n", "k">>
s_a == <<"a">>
s_b == <<"b">>
s_c == <<"c">>
s_x == <<"x">>
s_scale == <<"s", "c", "a", "l", "e">>
s_dark == <<"d", "a", "r", "k">>
s_button == <<"b", "u", "t", "t", "o", "n">>
s_size == <<"s", "i", "z", "e">>
s_100 == <<"1", "0", "0">>
s_200 == <<"2", "0", "0">>
s_300 == <<"3", "0", "0">>
s_400 == <<"4", "0", "0">>
s_500 == <<"5", "0", "0">>
s_1000 == <<"1", "0", "0", "0">>
s_1100 == <<"1", "1", "0", "0">>
s_1200 == <<"1", "2", "0", "0">>
s_700 == <<"7", "0", "0">>
s_800 == <<"8", "0", "0">>
s_duration == <<"d", "u", "r", "a", "t", "i", "o", "n">>
s_ratio == <<"r", "a", "t", "i", "o">>
s_length == <<"l", "e", "n", "g", "t", "h">>
s_boolean == <<"b", "o", "o", "l", "e", "a", "n">>
s_undefined == <<"u", "n", "d", "e", "f", "i", "n", "e", "d">>
s_object == <<"o", "b", "j", "e", "c", "t">>
s_half == <<"h", "a", "l", "f">>
s_strong == <<"s", "t", "r", "o", "n", "g">>
s_inset == <<"i", "n", "s", "e", "t">>
s_font == <<"f", "o", "n", "t">>
s_family == <<"f", "a", "m", "i", "l", "y">>
k_value == <<"$", "v", "a", "l", "u", "e">>
k_type == <<"$", "t", "y", "p", "e">>
k_description == <<"$", "d", "e", "s", "c", "r", "i", "p", "t", "i", "o", "n">>
k_extensions == <<"$", "e", "x", "t", "e", "n", "s", "i", "o", "n", "s">>
s_16px == <<"1", "6", "p", "x">>
s_hexBrand == <<"#", "2", "5", "6", "3", "e", "b">>
s_hexUpper == <<"#", "2", "5", "6", "3", "E", "B">>
s_hexShort == <<"#", "2", "5", "6", "3", "e">>
s_hexBare == <<"2", "5", "6", "3", "e", "b">>
s_hexLetter == <<"#", "2", "5", "6", "3", "e", "g">>
s_hexLong == <<"#", "2", "5", "6", "3", "e", "b", "0">>
s_rgb == <<"r", "g", "b">>
s_hexWhite == <<"#", "f", "f", "f", "f", "f", "f">>
s_hexBlack == <<"#", "0", "0", "0", "0", "0", "0">>
s_descBrand == <<"B", "r", "a", "n", "d", " ", "b", "l", "u", "e", " ", "6", "0", "0">>
s_descLink == <<"L", "i", "n", "k", " ", "t", "e", "x", "t", " ", "c", "o", "l", "o", "u", "r">>
s_descSpacing == <<"M", "e", "d", "i", "u", "m", " ", "s", "p", "a", "c", "i", "n", "g">>
s_descWhite == <<"P", "u", "r", "e", " ", "w", "h", "i", "t", "e">>
s_descBlack == <<"P", "u", "r", "e", " ", "b", "l", "a", "c", "k">>
s_descShadow == <<"M", "e", "d", "i", "u", "m", " ", "s", "h", "a", "d", "o", "w">>
s_descBody == <<"B", "o", "d", "y", " ", "t", "e", "x", "t", ",", " ", "m", "e", "d", "i", "u", "m">>
s_refBrand == <<"{", "c", "o", "l", "o", "r", ".", "b", "r", "a", "n", "d", ".", "6", "0", "0", "}">>
s_refLayer == <<"{", "p", "r", "i", "m", "i", "t", "i", "v", "e", ".", "c", "o", "l", "o", "r", ".", "b", "r", "a", "n", "d", ".", "6", "0", "0", "}">>
s_refMissing == <<"{", "f", "o", "n", "t", ".", "f", "a", "m", "i", "l", "y", ".", "b", "a", "s", "e", "}">>
s_refSpacing == <<"{", "s", "p", "a", "c", "i", "n", "g", ".", "m", "d", "}">>
s_refA == <<"{", "c", "o", "l", "o", "r", ".", "l", "i", "n", "k", ".", "a", "}">>
s_inner == <<"i", "n", "n", "e", "r">>
s_dollarMeta == <<"$", "m", "e", "t", "a">>
s_list == <<"l", "i", "s", "t">>
s_self == <<"s", "e", "l", "f">>
s_refSelf == <<"{", "c", "o", "l", "o", "r", ".", "l", "i", "n", "k", ".", "s", "e", "l", "f", "}">>
s_refB == <<"{", "c", "o", "l", "o", "r", ".", "l", "i", "n", "k", ".", "b", "}">>
s_primitiveDot == <<"p", "r", "i", "m", "i", "t", "i", "v", "e", ".">>
s_semanticDot == <<"s", "e", "m", "a", "n", "t", "i", "c", ".">>
s_fontWeightDot == <<"f", "o", "n", "t", "W", "e", "i", "g", "h", "t", ".">>
s_lineHeightDot == <<"l", "i", "n", "e", "H", "e", "i", "g", "h", "t", ".">>
s_opacityDot == <<"o", "p", "a", "c", "i", "t", "y", ".">>
s_colorWhite == <<"c", "o", "l", "o", "r", ".", "w", "h", "i", "t", "e">>
s_colorBlack == <<"c", "o", "l", "o", "r", ".", "b", "l", "a", "c", "k">>
s_dottedText == <<"c", "o", "l", "o", "r", ".", "t", "e", "x", "t">>
s_dottedBackground == <<"c", "o", "l", "o", "r", ".", "b", "a", "c", "k", "g", "r", "o", "u", "n", "d">>
s_dottedBorder == <<"c", "o", "l", "o", "r", ".", "b", "o", "r", "d", "e", "r">>
s_descStep == <<"C", "o", "l", "o", "u", "r", " ", "s", "c", "a", "l", "e", " ", "s", "t", "e", "p">>
s_refNeutral == <<"{", "c", "o", "l", "o", "r", ".", "n", "e", "u", "t", "r", "a", "l", ".", "9", "0", "0", "}">>
s_refWhite == <<"{", "c", "o", "l", "o", "r", ".", "w", "h", "i", "t", "e", "}">>
s_sans == <<"s", "a", "n", "s", "-", "s", "e", "r", "i", "f">>
s_ratio45 == <<"4", ".", "5", ":", "1">>
s_zero == <<"z", "e", "r", "o">>
s_one == <<"o", "n", "e">>
s_under == <<"u", "n", "d", "e", "r">>
s_over == <<"o", "v", "e", "r">>
s_fast == <<"f", "a", "s", "t">>
s_slow == <<"s", "l", "o", "w">>
s_alias == <<"a", "l", "i", "a", "s">>
s_red == <<"r", "e", "d">>
s_y == <<"y">>
s_muted == <<"m", "u", "t", "e", "d">>
s_foreground == <<"f", "o", "r", "e", "g", "r", "o", "u", "n", "d">>
s_200ms == <<"2", "0", "0", "m", "s">>
s_descShort == <<"S", "h", "o", "r", "t">>
s_descOpacity == <<"O", "p", "a", "c", "i", "t", "y", " ", "s", "t", "e", "p">>
s_refBody == <<"{", "t", "y", "p", "o", "g", "r", "a", "p", "h", "y", ".", "b", "o", "d", "y", ".", "m", "d", ".", "d", "e", "f", "a", "u", "l", "t", "}">>
s_refGone == <<"{", "c", "o", "l", "o", "r", ".", "g", "o", "n", "e", "}">>
s_refOpacityLayer == <<"{", "p", "r", "i", "m", "i", "t", "i", "v", "e", ".", "o", "p", "a", "c", "i", "t", "y", ".", "g", "o", "n", "e", "}">>
s_essentialText == <<"c", "o", "l", "o", "r", ".", "t", "e", "x", "t", ".", "n", "e", "u", "t", "r", "a", "l", ".", "b", "a", "s", "e", ".", "d", "e", "f", "a", "u", "l", "t">>
s_essentialBackground == <<"c", "o", "l", "o", "r", ".", "b", "a", "c", "k", "g", "r", "o", "u", "n", "d", ".", "n", "e", "u", "t", "r", "a", "l", ".", "b", "a", "s", "e", ".", "d", "e", "f", "a", "u", "l", "t">>
s_essentialBorder == <<"c", "o", "l", "o", "r", ".", "b", "o", "r", "d", "e", "r", ".", "n", "e", "u", "t", "r", "a", "l", ".", "b", "a", "s", "e", ".", "d", "e", "f", "a", "u", "l", "t">>
s_essentialBody == <<"t", "y", "p", "o", "g", "r", "a", "p", "h", "y", ".", "b", "o", "d", "y", ".", "m", "d", ".", "d", "e", "f", "a", "u", "l", "t">>
s_essentialHeading == <<"t", "y", "p", "o", "g", "r", "a", "p", "h", "y", ".", "h", "e", "a", "d", "i", "n", "g">>

----------------------------------------------------------------------------
(* Constants of the script. *)
HexLen == 6
ColorComponents == 3
HueMax == 360
PercentMax == 100
MinDescriptionLength == 10
MaxDepth == 4
StateDepth == 4
FontWeightMin == 100
FontWeightMax == 900
FontWeightStep == 100
LineHeightMax == 3
VagueMaxLength == 20
UncaughtExitStatus == 1

(* Bounds of the model: how many bundles of the pools a corpus may hold. *)
MaxPrimitiveBundles == 2
MaxSemanticBundles == 2

(* How many times the script is run on the same token files. *)
MaxRuns == 2



----------------------------------------------------------------------------
(* JavaScript values. *)
Str(s) == [t |-> "string", s |-> s]
Num(n) == [t |-> "number", num |-> n, den |-> 1]
Frac(n, d) == [t |-> "number", num |-> n, den |-> d]
Bool(b) == [t |-> "boolean", b |-> b]
Arr(a) == [t |-> "array", a |-> a]
Obj(e) == [t |-> "object", e |-> e]
Null == [t |-> "null"]
Undefined == [t |-> "undefined"]
NaN == [t |-> "nan"]
KV(k, v) == [k |-> k, v |-> v]

\* typeof value
TypeOf(v) ==
  CASE v.t = "string" -> "string"
    [] v.t = "number" -> "number"
    [] v.t = "boolean" -> "boolean"
    [] v.t = "undefined" -> "undefined"
    [] OTHER -> "object"

\* Array.isArray(value)
IsArray(v) == v.t = "array"

\* ToBoolean(value): undefined, null, false, 0 and "" are falsy
Truthy(v) ==
  CASE v.t = "undefined" -> FALSE
    [] v.t = "null" -> FALSE
    [] v.t = "boolean" -> v.b
    [] v.t = "number" -> v.num # 0
    [] v.t = "string" -> v.s # <<>>
    [] OTHER -> TRUE

\* value && typeof value === 'object'
IsObjectLike(v) == Truthy(v) /\ TypeOf(v) = "object"

\* value === 'literal'
StrictEqStr(v, s) == v.t = "string" /\ v.s = s

Digits == <<"0", "1", "2", "3", "4", "5", "6", "7", "8", "9">>
DigitChars == {Digits[i] : i \in 1..Len(Digits)}
DigitValue(c) == (CHOOSE i \in 1..Len(Digits) : Digits[i] = c) - 1

RECURSIVE NatToStr(_)
\* String(n) for a natural number n
NatToStr(n) ==
  IF n < Len(Digits) THEN <<Digits[n + 1]>>
  ELSE Append(NatToStr(n \div Len(Digits)), Digits[(n % Len(Digits)) + 1])

RECURSIVE StrToNat(_)
\* the value of a string of decimal digits
StrToNat(s) ==
  IF s = <<>> THEN 0
  ELSE Len(Digits) * StrToNat(SubSeq(s, 1, Len(s) - 1)) + DigitValue(s[Len(s)])

\* ToNumber(value), the conversion the relational and arithmetic operators
\* apply: null is 0, the empty string is 0, a string of decimal digits is its
\* value; any other string, undefined and an object are NaN
ToNumber(v) ==
  CASE v.t = "number" -> v
    [] v.t = "null" -> Num(0)
    [] v.t = "boolean" -> IF v.b THEN Num(1) ELSE Num(0)
    [] v.t = "string" -> IF \A i \in 1..Len(v.s) : v.s[i] \in DigitChars
                         THEN Num(StrToNat(v.s)) ELSE NaN
    [] OTHER -> NaN

LtNum(x, y) == x.t = "number" /\ y.t = "number" /\ x.num * y.den < y.num * x.den

\* a < b and a > b: false when either operand converts to NaN
Lt(a, b) == LtNum(ToNumber(a), ToNumber(b))
Gt(a, b) == LtNum(ToNumber(b), ToNumber(a))

\* a < lo || a > hi
OutOfRange(a, lo, hi) == Lt(a, lo) \/ Gt(a, hi)

\* Object.entries(value) of an object or an array (index keys)
ObjectEntries(v) ==
  CASE v.t = "object" -> v.e
    [] v.t = "array" -> [i \in 1..Len(v.a) |-> KV(NatToStr(i - 1), v.a[i])]
    [] OTHER -> <<>>

ValuesOf(ents) == [i \in 1..Len(ents) |-> ents[i].v]

\* Object.values(value)
ObjectValues(v) == ValuesOf(ObjectEntries(v))

HasKey(ents, key) == \E i \in 1..Len(ents) : ents[i].k = key

\* prop in value, for an object or an array
HasProp(v, key) == HasKey(ObjectEntries(v), key) \/ (v.t = "array" /\ key = s_length)

Lookup(ents, key) ==
  IF HasKey(ents, key) THEN ents[CHOOSE i \in 1..Len(ents) : ents[i].k = key].v ELSE Undefined

\* value.prop: undefined when the property is absent
Get(v, key) ==
  IF v.t = "array" /\ key = s_length THEN Num(Len(v.a))
  ELSE IF v.t = "string" /\ key = s_length THEN Num(Len(v.s))
  ELSE Lookup(ObjectEntries(v), key)

\* String.prototype.startsWith / endsWith / slice(1, -1)
startsWith(s, p) == Len(s) >= Len(p) /\ SubSeq(s, 1, Len(p)) = p
endsWith(s, p) == Len(s) >= Len(p) /\ SubSeq(s, Len(s) - Len(p) + 1, Len(s)) = p
slice1(s) == SubSeq(s, 2, Len(s) - 1)

RECURSIVE join(_, _)
\* Array.prototype.join(sep) on an array of strings
join(parts, sep) ==
  IF parts = <<>> THEN <<>>
  ELSE IF Len(parts) = 1 THEN parts[1]
  ELSE parts[1] \o sep \o join(Tail(parts), sep)

\* src/audit-tokens.js:90
getTokenPath(pathArray) == join(pathArray, <<".">>)

\* Array.prototype.includes
includes(arr, x) == \E i \in 1..Len(arr) : arr[i] = x

\* path[i] of a JavaScript array (zero-based): undefined past the end
At(path, i) == IF i + 1 <= Len(path) THEN Str(path[i + 1]) ELSE Undefined

StrList(ss) == [i \in 1..Len(ss) |-> Str(ss[i])]

----------------------------------------------------------------------------
(* The results collector and its helpers. *)
EmptyStats ==
  [totalTokens |-> 0, primitiveTokens |-> 0, semanticTokens |-> 0,
   missingType |-> 0, missingDescription |-> 0, invalidReferences |-> 0]

EmptyResults == [pass |-> <<>>, warnings |-> <<>>, critical |-> <<>>, stats |-> EmptyStats]

\* A finding: the message template, the token path it names and the values
\* the message interpolates.
Finding(msg, at, args) == [msg |-> msg, at |-> at, args |-> args]

\* The collector as a checker threads it: the results, the checker's local
\* variables and whether an exception is propagating.
Start(res, loc) == [res |-> res, loc |-> loc, thrown |-> FALSE]

addPass(r, message) == [r EXCEPT !.res.pass = Append(@, message)]
\* a warning put before the earlier ones
unshiftWarning(r, message) == [r EXCEPT !.res.warnings = <<message>> \o @]
addWarning(r, message) == [r EXCEPT !.res.warnings = Append(@, message)]
addCritical(r, message) == [r EXCEPT !.res.critical = Append(@, message)]
Throw(r) == [r EXCEPT !.thrown = TRUE]

RECURSIVE TokenVisits(_, _)

\* a turn of the loop that does not skip the metadata keys
VisitsOfAnyKey(key, value, path) ==
  IF IsObjectLike(value)
  THEN IF HasProp(value, k_value)
       THEN <<[path |-> Append(path, key), token |-> value]>>
       ELSE TokenVisits(value, Append(path, key))
  ELSE <<>>

\* one turn of the loop of traverseTokens, lines 71-86
VisitsOf(key, value, path) ==
  IF startsWith(key, <<"$">>) THEN <<>>
  ELSE IF IsObjectLike(value)
       THEN IF HasProp(value, k_value)
            THEN <<[path |-> Append(path, key), token |-> value]>>
            ELSE TokenVisits(value, Append(path, key))
       ELSE <<>>

VisitsOfEntries(ents, path) ==
  LET acc[i \in 0..Len(ents)] ==
        IF i = 0 THEN <<>> ELSE acc[i - 1] \o VisitsOf(ents[i].k, ents[i].v, path)
  IN acc[Len(ents)]

\* The (path, token) pairs traverseTokens hands to its callback, in order.
TokenVisits(obj, path) == VisitsOfEntries(ObjectEntries(obj), path)

\* how many visits of a traversal are evaluated together; its result does
\* not depend on it
BlockSize == 8

\* results.stats.totalTokens++ and the per-layer counter, lines 79-81
CountToken(r, layer) ==
  [r EXCEPT !.res.stats.totalTokens = @ + 1,
            !.res.stats.primitiveTokens = IF layer = "primitive" THEN @ + 1 ELSE @,
            !.res.stats.semanticTokens = IF layer = "semantic" THEN @ + 1 ELSE @]

\* the token is counted after the callback returns
Counted(after, layer) == IF after.thrown THEN after ELSE CountToken(after, layer)

\* an exception thrown by the callback ends the traversal
VisitToken(prev, visit, callback(_, _, _), layer) ==
  IF prev.thrown THEN prev ELSE Counted(callback(prev, visit.path, visit.token), layer)

\* the callback applied to visits[from + 1 .. from + count] in order
RunBlock(visits, from, count, callback(_, _, _), layer, r) ==
  LET run[i \in 0..count] ==
        IF i = 0 THEN r ELSE VisitToken(run[i - 1], visits[from + i], callback, layer)
  IN IF r.thrown THEN r ELSE run[count]

\* the visits are taken in order, BlockSize at a time
BlockCount(n) == (n + BlockSize - 1) \div BlockSize

BlockLength(n, j) == IF j * BlockSize <= n THEN BlockSize ELSE n - (j - 1) * BlockSize

RunVisits(visits, callback(_, _, _), layer, r) ==
  LET blk[j \in 0..BlockCount(Len(visits))] ==
        IF j = 0 THEN r
        ELSE RunBlock(visits, (j - 1) * BlockSize, BlockLength(Len(visits), j),
                      callback, layer, blk[j - 1])
  IN blk[BlockCount(Len(visits))]

\* traverseTokens(obj, callback, [], layer)
traverseTokens(obj, callback(_, _, _), layer, r) ==
  IF r.thrown THEN r ELSE RunVisits(TokenVisits(obj, <<>>), callback, layer, r)

----------------------------------------------------------------------------
(* Value validators, src/audit-tokens.js:94-226.  Each yields the          *)
(* collector and the boolean the function returns.                         *)
Ret(r, ret) == [r |-> r, ret |-> ret]

\* addCritical(message) with the return false left out
FailAndGoOn(r, msg, tokenPath, args) == Ret(addCritical(r, Finding(msg, tokenPath, args)), TRUE)

\* return false after addCritical(message)
Fail(r, msg, tokenPath, args) == Ret(addCritical(r, Finding(msg, tokenPath, args)), FALSE)

WarnIf(cond, r, msg, tokenPath, args) ==
  IF cond THEN addWarning(r, Finding(msg, tokenPath, args)) ELSE r

\* typeof value, as the string the messages interpolate
TypeName(v) ==
  CASE v.t = "string" -> s_string
    [] v.t = "number" -> s_number
    [] v.t = "boolean" -> s_boolean
    [] v.t = "undefined" -> s_undefined
    [] OTHER -> s_object

\* required.filter(prop => !(prop in value))
MissingProps(required, value) == SelectSeq(required, LAMBDA prop : ~HasProp(value, prop))

HexDigits ==
  {"0", "1", "2", "3", "4", "5", "6", "7", "8", "9",
   "a", "b", "c", "d", "e", "f", "A", "B", "C", "D", "E", "F"}

RECURSIVE HexTest(_)
\* /^#[0-9A-Fa-f]{6}$/.test(v): the argument is converted to a string first;
\* an array converts to its members joined by commas
HexTest(v) ==
  CASE v.t = "string" ->
         /\ Len(v.s) = HexLen + 1
         /\ v.s[1] = "#"
         /\ \A i \in 2..Len(v.s) : v.s[i] \in HexDigits
    [] v.t = "array" -> Len(v.a) = 1 /\ HexTest(v.a[1])
    [] OTHER -> FALSE

\* lines 139-150
ColorAlphaHex(r, alpha, hex, tokenPath) ==
  IF TypeOf(alpha) # "number" \/ OutOfRange(alpha, Num(0), Num(1))
  THEN Fail(r, "AlphaRange", tokenPath, <<alpha>>)
  ELSE IF ~HexTest(hex) THEN Fail(r, "HexInvalid", tokenPath, <<hex>>)
  ELSE Ret(r, TRUE)

\* lines 127-136
ColorRanges(r, h, s, l, tokenPath) ==
  WarnIf(OutOfRange(l, Num(0), Num(PercentMax)),
         WarnIf(OutOfRange(s, Num(0), Num(PercentMax)),
                WarnIf(OutOfRange(h, Num(0), Num(HueMax)), r, "HueRange", tokenPath, <<h>>),
                "SaturationRange", tokenPath, <<s>>),
         "LightnessRange", tokenPath, <<l>>)

\* lines 115-150
ColorFields(r, colorSpace, components, alpha, hex, tokenPath) ==
  IF ~StrictEqStr(colorSpace, s_hsl)
  THEN Fail(r, "ColorSpaceNotHsl", tokenPath, <<colorSpace>>)
  ELSE IF ~IsArray(components) \/ Len(components.a) # ColorComponents
  THEN Fail(r, "ColorComponentsArity", tokenPath, <<>>)
  ELSE ColorAlphaHex(ColorRanges(r, components.a[1], components.a[2], components.a[3], tokenPath),
                     alpha, hex, tokenPath)

\* lines 106-112
ColorRequired(r, missing, value, tokenPath) ==
  IF Len(missing) > 0 THEN Fail(r, "ColorMissingProps", tokenPath, StrList(missing))
  ELSE ColorFields(r, Get(value, s_colorSpace), Get(value, s_components),
                   Get(value, s_alpha), Get(value, s_hex), tokenPath)

validateColorValue(r, value, tokenPath) ==
  IF TypeOf(value) = "string" THEN Fail(r, "ColorStringFormat", tokenPath, <<value>>)
  ELSE IF ~Truthy(value) \/ TypeOf(value) # "object"
  THEN Fail(r, "ColorInvalidFormat", tokenPath, <<>>)
  ELSE ColorRequired(r, MissingProps(<<s_colorSpace, s_components, s_alpha, s_hex>>, value),
                     value, tokenPath)

\* lines 171-187
DimensionFields(r, value, unit, tokenPath) ==
  IF TypeOf(value) # "number"
  THEN Fail(r, "DimensionValueNotNumber", tokenPath, <<Str(TypeName(value))>>)
  ELSE IF TypeOf(unit) # "string"
  THEN Fail(r, "DimensionUnitNotString", tokenPath, <<Str(TypeName(unit))>>)
  ELSE Ret(WarnIf(~StrictEqStr(unit, s_px) /\ ~StrictEqStr(unit, s_em),
                  r, "DimensionUnexpectedUnit", tokenPath, <<unit>>), TRUE)

validateDimensionValue(r, value, tokenPath) ==
  IF TypeOf(value) = "string" THEN Fail(r, "DimensionStringFormat", tokenPath, <<value>>)
  ELSE IF ~Truthy(value) \/ TypeOf(value) # "object"
  THEN Fail(r, "DimensionInvalidFormat", tokenPath, <<>>)
  ELSE IF ~HasProp(value, s_value) \/ ~HasProp(value, s_unit)
  THEN Fail(r, "DimensionMissingProps", tokenPath, <<>>)
  ELSE DimensionFields(r, Get(value, s_value), Get(value, s_unit), tokenPath)

\* lines 197-204
TypographyRecommended(r, missing, tokenPath) ==
  Ret(WarnIf(Len(missing) > 0, r, "TypographyMissingProps", tokenPath, StrList(missing)), TRUE)

validateTypographyValue(r, value, tokenPath) ==
  IF ~Truthy(value) \/ TypeOf(value) # "object"
  THEN Fail(r, "TypographyNotObject", tokenPath, <<>>)
  ELSE TypographyRecommended(
         r, MissingProps(<<s_fontFamily, s_fontSize, s_fontWeight, s_lineHeight>>, value), tokenPath)

\* The right operand of `in` must be an object: `prop in shadow` throws a
\* TypeError for a string, a number, a boolean or null.
InThrows(v) == v.t \in {"string", "number", "boolean", "null", "undefined"}

\* line 216
shadowRequired == <<s_offsetX, s_offsetY, s_blur, s_color>>

\* one turn of the loop, lines 216-222, on a member that is an object
ShadowMember(r, missing, tokenPath) ==
  IF Len(missing) > 0 THEN Fail(r, "ShadowMissingProps", tokenPath, StrList(missing))
  ELSE Ret(r, TRUE)

\* the loop of lines 215-223: it ends at the first member that throws or
\* that misses a property
ShadowLoop(r, shadows, tokenPath) ==
  LET loop[i \in 1..(Len(shadows) + 1)] ==
        IF i > Len(shadows) THEN Ret(r, TRUE)
        ELSE IF InThrows(shadows[i]) THEN Ret(Throw(r), FALSE)
        ELSE IF Len(MissingProps(shadowRequired, shadows[i])) > 0
        THEN ShadowMember(r, MissingProps(shadowRequired, shadows[i]), tokenPath)
        ELSE loop[i + 1]
  IN loop[1]

validateShadowValue(r, value, tokenPath) ==
  IF ~Truthy(value) \/ TypeOf(value) # "object"
  THEN Fail(r, "ShadowNotObject", tokenPath, <<>>)
  ELSE ShadowLoop(r, IF IsArray(value) THEN value.a ELSE <<value>>, tokenPath)

----------------------------------------------------------------------------
(* Check #1, src/audit-tokens.js:229-306. *)

\* results.stats.<counter>++
Bump(r, counter) == [r EXCEPT !.res.stats[counter] = @ + 1]

\* a check that reports the first token without a kind and no other
cbMissingTypeOnce(r, path, token) ==
  IF ~Truthy(Get(token, k_type)) /\ r.res.stats.missingType = 0
  THEN Bump(addCritical(r, Finding("MissingType", getTokenPath(path), <<>>)), "missingType")
  ELSE r

\* lines 233-239 and 241-247
cbMissingType(r, path, token) ==
  IF ~Truthy(Get(token, k_type))
  THEN Bump(addCritical(r, Finding("MissingType", getTokenPath(path), <<>>)), "missingType")
  ELSE r

\* lines 252-254 and 262-264
MissingDescription(r, path) ==
  Bump(addWarning(r, Finding("MissingDescription", getTokenPath(path), <<>>)),
       "missingDescription")

\* lines 252-257
DescriptionCheck(r, path, description) ==
  IF ~Truthy(description) THEN MissingDescription(r, path)
  ELSE WarnIf(Lt(Get(description, s_length), Num(MinDescriptionLength)),
              r, "DescriptionTooShort", getTokenPath(path), <<Get(description, s_length)>>)

\* lines 250-258
cbDescriptionPrimitive(r, path, token) == DescriptionCheck(r, path, Get(token, k_description))

\* lines 260-266
cbDescriptionSemantic(r, path, token) ==
  IF ~Truthy(Get(token, k_description)) THEN MissingDescription(r, path) ELSE r

\* a dispatch that holds a kind without a validator to the dimension shape
ValueFormatDefaulting(r, type, value, tokenPath) ==
  IF StrictEqStr(type, s_color) THEN validateColorValue(r, value, tokenPath).r
  ELSE validateDimensionValue(r, value, tokenPath).r

\* lines 272-284
ValueFormat(r, type, value, tokenPath) ==
  IF StrictEqStr(type, s_color) THEN validateColorValue(r, value, tokenPath).r
  ELSE IF StrictEqStr(type, s_dimension) THEN validateDimensionValue(r, value, tokenPath).r
  ELSE IF StrictEqStr(type, s_fontFamily)
  THEN IF ~IsArray(value) THEN addCritical(r, Finding("FontFamilyNotArray", tokenPath, <<>>))
       ELSE r
  ELSE IF StrictEqStr(type, s_number)
  THEN IF TypeOf(value) # "number"
       THEN addCritical(r, Finding("NumberTypeMismatch", tokenPath, <<Str(TypeName(value))>>))
       ELSE r
  ELSE r

\* lines 269-285
cbValueFormat(r, path, token) ==
  ValueFormat(r, Get(token, k_type), Get(token, k_value), getTokenPath(path))

\* a depth check that warns from MaxDepth segments on
cbDepthInclusive(r, path, token) ==
  WarnIf(Len(path) >= MaxDepth, r, "NestingDepth", getTokenPath(path), <<Num(Len(path))>>)

\* lines 288-292 and 294-298
cbDepth(r, path, token) ==
  WarnIf(Len(path) > MaxDepth, r, "NestingDepth", getTokenPath(path), <<Num(Len(path))>>)

\* lines 300-302
TypePass(r) ==
  IF r.res.stats.missingType = 0 THEN addPass(r, Finding("AllHaveType", <<>>, <<>>)) ELSE r

\* lines 303-305
DescriptionPass(r) ==
  IF r.res.stats.missingDescription = 0
  THEN addPass(r, Finding("AllHaveDescription", <<>>, <<>>)) ELSE r

NoLocals == [none |-> 0]

checkDTCGCompliance(prim, sem, res) ==
  LET r1 == traverseTokens(prim, cbMissingType, "primitive", Start(res, NoLocals))
      r2 == traverseTokens(sem, cbMissingType, "semantic", r1)
      r3 == traverseTokens(prim, cbDescriptionPrimitive, "primitive", r2)
      r4 == traverseTokens(sem, cbDescriptionSemantic, "semantic", r3)
      r5 == traverseTokens(prim, cbValueFormat, "primitive", r4)
      r6 == traverseTokens(prim, cbDepth, "primitive", r5)
      r7 == traverseTokens(sem, cbDepth, "semantic", r6)
  IN DescriptionPass(TypePass(r7))

----------------------------------------------------------------------------
(* Check #2, src/audit-tokens.js:309-365. *)

\* lines 314-316
cbIndexPrimitive(r, path, token) ==
  [r EXCEPT !.loc.primitiveIndex = @ \cup {getTokenPath(path)}]

\* lines 320-322
cbIndexSemantic(r, path, token) ==
  [r EXCEPT !.loc.semanticIndex = @ \cup {getTokenPath(path)}]

\* typeof value === 'string' && value.startsWith('{') && value.endsWith('}')
IsReference(value) ==
  TypeOf(value) = "string" /\ startsWith(value.s, <<"{">>) /\ endsWith(value.s, <<"}">>)

\* a dangling check that consults the primitive index only
DanglingCheckPrimitiveOnly(r, ref, tokenPath) ==
  IF ref \notin r.loc.primitiveIndex
  THEN [r EXCEPT !.res.critical =
                   Append(@, Finding("ReferenceNotFound", tokenPath, <<Str(ref)>>)),
                 !.res.stats.invalidReferences = @ + 1]
  ELSE r

\* lines 333-336
DanglingCheck(r, ref, tokenPath) ==
  IF ref \notin r.loc.primitiveIndex /\ ref \notin r.loc.semanticIndex
  THEN Bump(addCritical(r, Finding("ReferenceNotFound", tokenPath, <<Str(ref)>>)),
            "invalidReferences")
  ELSE r

\* a layer-prefix check that leaves a reference already reported alone
LayerPrefixCheckOnce(r, ref, tokenPath) ==
  IF (startsWith(ref, s_primitiveDot) \/ startsWith(ref, s_semanticDot))
     /\ \A i \in 1..Len(r.res.critical) : r.res.critical[i].at # tokenPath
  THEN addCritical(r, Finding("ReferenceLayerPrefix", tokenPath, <<Str(ref)>>))
  ELSE r

\* lines 339-341
LayerPrefixCheck(r, ref, tokenPath) ==
  IF startsWith(ref, s_primitiveDot) \/ startsWith(ref, s_semanticDot)
  THEN addCritical(r, Finding("ReferenceLayerPrefix", tokenPath, <<Str(ref)>>))
  ELSE r

\* lines 329-341
CheckReference(r, ref, tokenPath) ==
  LayerPrefixCheck(
    DanglingCheck([r EXCEPT !.loc.allReferences = @ \cup {ref}], ref, tokenPath),
    ref, tokenPath)

RECURSIVE checkReferences(_, _, _)

\* lines 343-345
WalkValues(r, vals, tokenPath) ==
  LET walk[i \in 0..Len(vals)] ==
        IF i = 0 THEN r ELSE checkReferences(walk[i - 1], vals[i], tokenPath)
  IN walk[Len(vals)]

\* lines 327-347
checkReferences(r, value, tokenPath) ==
  IF IsReference(value) THEN CheckReference(r, slice1(value.s), tokenPath)
  ELSE IF TypeOf(value) = "object" /\ value.t # "null"
  THEN WalkValues(r, ObjectValues(value), tokenPath)
  ELSE r

\* a walk of the whole extensions map
WholeExtensions(r, extensions, tokenPath) ==
  IF Truthy(extensions) THEN checkReferences(r, extensions, tokenPath) ELSE r

\* lines 353-355
OpacityExtension(r, extensions, tokenPath) ==
  IF Truthy(extensions) /\ Truthy(Get(extensions, s_opacity))
  THEN checkReferences(r, Get(extensions, s_opacity), tokenPath)
  ELSE r

\* lines 349-356
cbCheckReferences(r, path, token) ==
  OpacityExtension(checkReferences(r, Get(token, k_value), getTokenPath(path)),
                   Get(token, k_extensions), getTokenPath(path))

\* a closing pass decided by the critical bucket, not by the counter
ReferencesPassIfClean(r) ==
  IF Len(r.res.critical) = 0
  THEN addPass(r, Finding("AllReferencesValid", <<>>, <<Num(Cardinality(r.loc.allReferences))>>))
  ELSE r

\* lines 358-360
ReferencesPass(r) ==
  IF r.res.stats.invalidReferences = 0
  THEN addPass(r, Finding("AllReferencesValid", <<>>, <<Num(Cardinality(r.loc.allReferences))>>))
  ELSE r

\* a reference check that ends without its closing pass
CircularReferenceSkipped(r) == r

\* lines 362-364: the pass is added without a search for cycles
CircularReferenceCheck(r) == addPass(r, Finding("NoCircularReferences", <<>>, <<>>))

ReferenceLocals == [primitiveIndex |-> {}, semanticIndex |-> {}, allReferences |-> {}]

checkReferenceIntegrity(prim, sem, res) ==
  LET r1 == traverseTokens(prim, cbIndexPrimitive, "primitive", Start(res, ReferenceLocals))
      r2 == traverseTokens(sem, cbIndexSemantic, "semantic", r1)
      r3 == traverseTokens(sem, cbCheckReferences, "semantic", r2)
  IN CircularReferenceCheck(ReferencesPass(r3))

----------------------------------------------------------------------------
(* Check #3, src/audit-tokens.js:368-406. *)

\* tokenPath.startsWith('primitive.') || tokenPath.startsWith('semantic.')
HasLayerPrefix(tokenPath) ==
  startsWith(tokenPath, s_primitiveDot) \/ startsWith(tokenPath, s_semanticDot)

\* lines 374-380 and 382-388
cbLayerPrefix(r, path, token) ==
  IF HasLayerPrefix(getTokenPath(path))
  THEN [addCritical(r, Finding("PathLayerPrefix", getTokenPath(path), <<>>))
          EXCEPT !.loc.namingIssues = @ + 1]
  ELSE r

\* line 393
states == <<s_default, s_hover, s_pressed, s_active, s_focus, s_disabled, s_visited, s_selected>>

\* lines 392-400
cbStateSuffix(r, path, token) ==
  WarnIf(includes(states, path[Len(path)]) /\ Len(path) # StateDepth,
         r, "StateSuffixDepth", getTokenPath(path), <<Str(path[Len(path)])>>)

\* lines 402-405
NamingPass(r) ==
  IF r.loc.namingIssues = 0
  THEN addPass(addPass(r, Finding("NoLayerPrefixes", <<>>, <<>>)),
               Finding("NamingConvention", <<>>, <<>>))
  ELSE r

checkNamingConventions(prim, sem, res) ==
  LET r1 == traverseTokens(prim, cbLayerPrefix, "primitive", Start(res, [namingIssues |-> 0]))
      r2 == traverseTokens(sem, cbLayerPrefix, "semantic", r1)
      r3 == traverseTokens(sem, cbStateSuffix, "semantic", r2)
  IN NamingPass(r3)

----------------------------------------------------------------------------
(* Check #4, src/audit-tokens.js:409-486. *)

FormatIssue(r) == [r EXCEPT !.loc.formatIssues = @ + 1]

\* if (!validate(...)) formatIssues++; an exception leaves the counter alone
CountFailure(v) == IF v.r.thrown \/ v.ret THEN v.r ELSE FormatIssue(v.r)

\* lines 415-421
cbColorFormat(r, path, token) ==
  IF StrictEqStr(Get(token, k_type), s_color)
  THEN CountFailure(validateColorValue(r, Get(token, k_value), getTokenPath(path)))
  ELSE r

\* a value-format check that leaves dimensions to the compliance check
cbDimensionFormatSkipped(r, path, token) == r

\* lines 424-430
cbDimensionFormat(r, path, token) ==
  IF StrictEqStr(Get(token, k_type), s_dimension)
  THEN CountFailure(validateDimensionValue(r, Get(token, k_value), getTokenPath(path)))
  ELSE r

\* lines 433-439
cbTypographyFormat(r, path, token) ==
  IF StrictEqStr(Get(token, k_type), s_typography)
  THEN CountFailure(validateTypographyValue(r, Get(token, k_value), getTokenPath(path)))
  ELSE r

\* lines 442-448
cbShadowFormat(r, path, token) ==
  IF StrictEqStr(Get(token, k_type), s_shadow)
  THEN CountFailure(validateShadowValue(r, Get(token, k_value), getTokenPath(path)))
  ELSE r

\* n % m !== 0, where NaN % m is NaN
NotMultiple(n, m) == IF n.t = "nan" THEN TRUE ELSE n.num % (m * n.den) # 0

\* lines 454-457
NumericCheck(r, value, tokenPath) ==
  IF TypeOf(value) # "number"
  THEN FormatIssue(addCritical(r, Finding("NumberNotNumeric", tokenPath, <<>>)))
  ELSE r

\* lines 460-464
FontWeightCheck(r, value, tokenPath) ==
  WarnIf(/\ startsWith(tokenPath, s_fontWeightDot)
         /\ \/ OutOfRange(value, Num(FontWeightMin), Num(FontWeightMax))
            \/ NotMultiple(ToNumber(value), FontWeightStep),
         r, "FontWeightRange", tokenPath, <<value>>)

\* lines 467-471
LineHeightCheck(r, value, tokenPath) ==
  WarnIf(/\ startsWith(tokenPath, s_lineHeightDot)
         /\ OutOfRange(value, Frac(1, 2), Num(LineHeightMax)),
         r, "LineHeightRange", tokenPath, <<value>>)

\* an opacity check that warns, as the checks of fontWeight and lineHeight do
OpacityWarned(r, value, tokenPath) ==
  WarnIf(startsWith(tokenPath, s_opacityDot) /\ OutOfRange(value, Num(0), Num(1)),
         r, "OpacityRange", tokenPath, <<value>>)

\* lines 474-479
OpacityCheck(r, value, tokenPath) ==
  IF startsWith(tokenPath, s_opacityDot) /\ OutOfRange(value, Num(0), Num(1))
  THEN FormatIssue(addCritical(r, Finding("OpacityRange", tokenPath, <<value>>)))
  ELSE r

\* lines 453-480
NumberChecks(r, value, tokenPath) ==
  OpacityCheck(
    LineHeightCheck(
      FontWeightCheck(NumericCheck(r, value, tokenPath), value, tokenPath),
      value, tokenPath),
    value, tokenPath)

\* lines 451-481
cbNumberFormat(r, path, token) ==
  IF StrictEqStr(Get(token, k_type), s_number)
  THEN NumberChecks(r, Get(token, k_value), getTokenPath(path))
  ELSE r

\* lines 483-485
FormatPass(r) ==
  IF r.thrown THEN r
  ELSE IF r.loc.formatIssues = 0
  THEN addPass(r, Finding("AllFormatsCorrect", <<>>, <<>>))
  ELSE r

checkValueFormatConsistency(prim, sem, res) ==
  LET r1 == traverseTokens(prim, cbColorFormat, "primitive", Start(res, [formatIssues |-> 0]))
      r2 == traverseTokens(prim, cbDimensionFormat, "primitive", r1)
      r3 == traverseTokens(sem, cbTypographyFormat, "semantic", r2)
      r4 == traverseTokens(sem, cbShadowFormat, "semantic", r3)
      r5 == traverseTokens(prim, cbNumberFormat, "primitive", r4)
  IN FormatPass(r5)

----------------------------------------------------------------------------
(* Check #5, src/audit-tokens.js:489-568. *)

\* lines 493-499
essentialSemantics ==
  <<s_essentialText, s_essentialBackground, s_essentialBorder, s_essentialBody, s_essentialHeading>>

\* line 516
expectedScales ==
  <<s_100, s_200, s_300, s_400, s_500, s_600, s_700, s_800, s_900, s_1000, s_1100, s_1200>>

\* line 518
colorCategories == <<s_primary, s_secondary, s_neutral, s_success, s_warning, s_error>>

\* line 535
statePatterns == <<s_default, s_hover, s_pressed>>

\* lines 508-512, for one pattern
EssentialCheck(r, essential) ==
  WarnIf(~\E p \in r.loc.semanticIndex : startsWith(p, essential),
         r, "MissingEssential", <<>>, <<Str(essential)>>)

\* lines 506-513
EssentialsCheck(r) ==
  LET loop[i \in 0..Len(essentialSemantics)] ==
        IF i = 0 THEN r ELSE EssentialCheck(loop[i - 1], essentialSemantics[i])
  IN loop[Len(essentialSemantics)]

\* lines 520-524
cbFoundScales(category, r, path, token) ==
  IF StrictEqStr(At(path, 0), s_color) /\ StrictEqStr(At(path, 1), category)
  THEN [r EXCEPT !.loc.foundScales = Append(@, At(path, 2))]
  ELSE r

\* lines 526-531
ScaleFinding(r, missing, category) ==
  IF Len(missing) > 0
  THEN addWarning(r, Finding("ScaleIncomplete", s_color \o <<".">> \o category, StrList(missing)))
  ELSE addPass(r, Finding("ScaleComplete", s_color \o <<".">> \o category, <<>>))

\* a filter that takes a category with any step for a complete one
MissingUnlessAny(foundScales) ==
  IF Len(foundScales) > 0 THEN <<>> ELSE expectedScales

\* expectedScales.filter(s => !foundScales.includes(s))
MissingScales(foundScales) ==
  SelectSeq(expectedScales, LAMBDA s : ~includes(foundScales, Str(s)))

ScaleResult(r, category) == ScaleFinding(r, MissingScales(r.loc.foundScales), category)

\* lines 518-532, for one category
ScaleCheck(prim, r, category) ==
  ScaleResult(
    traverseTokens(prim, LAMBDA c, path, token : cbFoundScales(category, c, path, token),
                   "primitive", [r EXCEPT !.loc.foundScales = <<>>]),
    category)

\* lines 518-532
ScalesCheck(prim, r) ==
  LET loop[i \in 0..Len(colorCategories)] ==
        IF i = 0 THEN r ELSE ScaleCheck(prim, loop[i - 1], colorCategories[i])
  IN loop[Len(colorCategories)]

\* lines 538-543
cbHasStates(r, path, token) ==
  IF includes(statePatterns, path[Len(path)]) THEN [r EXCEPT !.loc.hasStates = TRUE] ELSE r

\* lines 545-549
StatesFinding(r) ==
  IF r.loc.hasStates
  THEN addPass(r, Finding("InteractiveStatesDefined", <<>>, <<>>))
  ELSE addWarning(r, Finding("NoInteractiveStates", <<>>, <<>>))

\* an anchor check that takes the anchor for granted
AnchorAssumed(r, name) == addPass(r, Finding("AnchorDefined", name, <<>>))

\* lines 557-567, for one anchor token
AnchorCheck(r, name) ==
  IF name \in r.loc.primitiveIndex
  THEN addPass(r, Finding("AnchorDefined", name, <<>>))
  ELSE addWarning(r, Finding("AnchorMissing", name, <<>>))

CompletenessLocals ==
  [primitiveIndex |-> {}, semanticIndex |-> {}, foundScales |-> <<>>, hasStates |-> FALSE]

checkCompleteness(prim, sem, res) ==
  LET r1 == traverseTokens(sem, cbIndexSemantic, "semantic", Start(res, CompletenessLocals))
      r2 == ScalesCheck(prim, EssentialsCheck(r1))
      r3 == StatesFinding(traverseTokens(sem, cbHasStates, "semantic", r2))
      r4 == traverseTokens(prim, cbIndexPrimitive, "primitive", r3)
  IN AnchorCheck(AnchorCheck(r4, s_colorWhite), s_colorBlack)

----------------------------------------------------------------------------
(* Check #6, src/audit-tokens.js:571-629. *)

\* line 575
vagueWords == <<s_color, s_token, s_value, s_style>>

UpperCase == <<"A", "B", "C", "D", "E", "F", "G", "H", "I", "J", "K", "L", "M",
               "N", "O", "P", "Q", "R", "S", "T", "U", "V", "W", "X", "Y", "Z">>
LowerCase == <<"a", "b", "c", "d", "e", "f", "g", "h", "i", "j", "k", "l", "m",
               "n", "o", "p", "q", "r", "s", "t", "u", "v", "w", "x", "y", "z">>

LowerChar(c) ==
  IF \E k \in 1..Len(UpperCase) : UpperCase[k] = c
  THEN LowerCase[CHOOSE k \in 1..Len(UpperCase) : UpperCase[k] = c]
  ELSE c

\* String.prototype.toLowerCase on the letters A-Z
toLowerCase(s) == [i \in 1..Len(s) |-> LowerChar(s[i])]

\* line 581
HasVague(desc) ==
  \E i \in 1..Len(vagueWords) :
    \/ desc = vagueWords[i]
    \/ startsWith(desc, vagueWords[i] \o <<" ">>)
    \/ startsWith(desc, vagueWords[i] \o <<".">>)

\* lines 581-585
VagueCheck(r, desc, description, path) ==
  IF HasVague(desc) /\ Len(desc) < VagueMaxLength
  THEN [addWarning(r, Finding("DescriptionGeneric", getTokenPath(path), <<description>>))
          EXCEPT !.loc.unclearDescriptions = @ + 1]
  ELSE r

\* lines 579-586: toLowerCase is not a function of a description that is
\* truthy and not a string, and the call throws a TypeError
VagueDescription(r, description, path) ==
  IF ~Truthy(description) THEN r
  ELSE IF description.t # "string" THEN Throw(r)
  ELSE VagueCheck(r, toLowerCase(description.s), description, path)

\* lines 578-587
cbVagueDescription(r, path, token) == VagueDescription(r, Get(token, k_description), path)

CategoryIndex(known, category) == {i \in 1..Len(known) : known[i].category = category}

\* typesByCategory[category].add(type)
AddType(known, i, type) ==
  IF includes(known[i].types, type) THEN known
  ELSE [known EXCEPT ![i].types = Append(@, type)]

\* lines 594-598: typesByCategory keeps its categories and, per category,
\* its distinct types in order of insertion
RecordType(known, category, type) ==
  IF CategoryIndex(known, category) = {}
  THEN Append(known, [category |-> category, types |-> <<type>>])
  ELSE AddType(known, CHOOSE i \in CategoryIndex(known, category) : TRUE, type)

\* lines 593-599
cbTypesByCategory(r, path, token) ==
  [r EXCEPT !.loc.typesByCategory = RecordType(@, path[1], Get(token, k_type))]

\* lines 602-605, for one category
CategoryCheck(r, entry) ==
  IF Len(entry.types) > 1
  THEN [addWarning(r, Finding("MixedTypes", entry.category, entry.types))
          EXCEPT !.loc.typeInconsistencies = @ + 1]
  ELSE r

\* lines 601-606
TypeConsistencyCheck(r) ==
  LET loop[i \in 0..Len(r.loc.typesByCategory)] ==
        IF i = 0 THEN r ELSE CategoryCheck(loop[i - 1], r.loc.typesByCategory[i])
  IN loop[Len(r.loc.typesByCategory)]

\* lines 608-610
ConsistencyPass(r) ==
  IF r.loc.typeInconsistencies = 0
  THEN addPass(r, Finding("TypesConsistent", <<>>, <<>>)) ELSE r

\* lines 612-614
ClarityPass(r) ==
  IF r.loc.unclearDescriptions = 0
  THEN addPass(r, Finding("DescriptionsClear", <<>>, <<>>)) ELSE r

\* line 619
HasContrast(extensions) == Truthy(extensions) /\ Truthy(Get(extensions, s_contrast))

\* lines 618-622
cbAccessibility(r, path, token) ==
  IF HasContrast(Get(token, k_extensions)) THEN [r EXCEPT !.loc.hasAccessibilityInfo = TRUE]
  ELSE r

\* lines 624-628
AccessibilityFinding(r) ==
  IF r.loc.hasAccessibilityInfo
  THEN addPass(r, Finding("AccessibilityInfo", <<>>, <<>>))
  ELSE addWarning(r, Finding("NoAccessibilityInfo", <<>>, <<>>))

\* lines 589-628, reached when the first traversal has not thrown
QualityRest(prim, sem, r) ==
  IF r.thrown THEN r
  ELSE AccessibilityFinding(
         traverseTokens(sem, cbAccessibility, "semantic",
           ClarityPass(ConsistencyPass(TypeConsistencyCheck(
             traverseTokens(prim, cbTypesByCategory, "primitive", r))))))

QualityLocals ==
  [unclearDescriptions |-> 0, typeInconsistencies |-> 0,
   typesByCategory |-> <<>>, hasAccessibilityInfo |-> FALSE]

checkQuality(prim, sem, res) ==
  QualityRest(prim, sem,
              traverseTokens(prim, cbVagueDescription, "primitive", Start(res, QualityLocals)))

----------------------------------------------------------------------------
(* The summary, src/audit-tokens.js:632-703. *)

\* rounding towards zero, the variant MathRound is compared with
MathFloor(n, d) == n \div d

\* Math.round(n / d) for n >= 0 and d > 0: the nearest integer, a half upward
MathRound(n, d) == (2 * n + d) \div (2 * d)

\* a score that leaves the warnings out of the checks it counts
ScoreOfCriticals(res) ==
  IF Len(res.pass) + Len(res.critical) > 0
  THEN MathRound(Len(res.pass) * 100, Len(res.pass) + Len(res.critical))
  ELSE 0

\* lines 673-675.  The script rounds the double (pass / totalChecks) * 100;
\* for the pass counts a run can produce (at most 19) that double rounds to
\* the same integer as the exact quotient 100 * pass / totalChecks.
Score(res) ==
  IF Len(res.pass) + Len(res.critical) + Len(res.warnings) > 0
  THEN MathRound(Len(res.pass) * 100, Len(res.pass) + Len(res.critical) + Len(res.warnings))
  ELSE 0

\* a verdict that looks at the critical bucket only
VerdictIgnoringWarnings(res) ==
  IF Len(res.critical) = 0 THEN "PRODUCTION READY" ELSE "NOT PRODUCTION READY"

\* lines 691-700
Verdict(res) ==
  IF Len(res.critical) = 0 /\ Len(res.warnings) = 0 THEN "PRODUCTION READY"
  ELSE IF Len(res.critical) = 0 THEN "PRODUCTION READY WITH WARNINGS"
  ELSE "NOT PRODUCTION READY"

\* an exit status that counts warnings as failures
ExitStatusCountingWarnings(res) ==
  IF Len(res.critical) + Len(res.warnings) > 0 THEN 1 ELSE 0

\* line 719
ExitStatus(res) == IF Len(res.critical) > 0 THEN 1 ELSE 0

----------------------------------------------------------------------------
(* The token corpora a run is started on.  A tree is built as the parse of *)
(* a JSON document builds it: each token is inserted at its path, groups   *)
(* are created on the way, keys keep their order of insertion.             *)

RECURSIVE Insert(_, _, _)
Insert(obj, path, node) ==
  LET key == path[1]
      ents == obj.e
      hits == {i \in 1..Len(ents) : ents[i].k = key}
      at == CHOOSE i \in hits : TRUE
  IN IF Len(path) = 1
     THEN IF hits = {} THEN Obj(Append(ents, KV(key, node)))
          ELSE Obj([ents EXCEPT ![at].v = node])
     ELSE IF hits = {} THEN Obj(Append(ents, KV(key, Insert(Obj(<<>>), Tail(path), node))))
          ELSE Obj([ents EXCEPT ![at].v = Insert(ents[at].v, Tail(path), node)])

Place(path, node) == [path |-> path, node |-> node]

BuildTree(pairs) ==
  LET t[i \in 0..Len(pairs)] ==
        IF i = 0 THEN Obj(<<>>) ELSE Insert(t[i - 1], pairs[i].path, pairs[i].node)
  IN t[Len(pairs)]

\* the (path, node) pairs of the selected bundles of a pool, in pool order
Selected(pool, sel) ==
  LET c[i \in 0..Len(pool)] ==
        IF i = 0 THEN <<>> ELSE IF i \in sel THEN c[i - 1] \o pool[i] ELSE c[i - 1]
  IN c[Len(pool)]

Corpora(pool, max) ==
  {BuildTree(Selected(pool, sel)) :
     sel \in {s \in SUBSET (1..Len(pool)) : Cardinality(s) <= max}}

TokenNode(type, value, description) ==
  Obj(<<KV(k_type, Str(type)), KV(k_value, value), KV(k_description, description)>>)

ColorValue(h, s, l, hex) ==
  Obj(<<KV(s_colorSpace, Str(s_hsl)),
        KV(s_components, Arr(<<Num(h), Num(s), Num(l)>>)),
        KV(s_alpha, Num(1)),
        KV(s_hex, Str(hex))>>)

\* color.brand.600: a valid HSL+hex colour with a description
BrandToken == Place(<<s_color, s_brand, s_600>>,
                    TokenNode(s_color, ColorValue(217, 91, 60, s_hexBrand), Str(s_descBrand)))

\* spacing.md: a dimension written as the string "16px"
StringDimensionToken == Place(<<s_spacing, s_md>>,
                              TokenNode(s_dimension, Str(s_16px), Str(s_descSpacing)))

\* a primitive of 4 segments and one of 5 segments ending in a state name
DeepPrimitives ==
  <<Place(<<s_color, s_scale, s_brand, s_900>>,
          TokenNode(s_color, ColorValue(217, 91, 30, s_hexBrand), Str(s_descBrand))),
    Place(<<s_color, s_scale, s_brand, s_dark, s_default>>,
          TokenNode(s_color, ColorValue(217, 91, 20, s_hexBrand), Str(s_descBrand)))>>

\* opacity.half: a number whose description is the number 5
NumberDescriptionToken ==
  Place(<<s_opacity, s_half>>,
        Obj(<<KV(k_type, Str(s_number)), KV(k_value, Frac(1, 2)), KV(k_description, Num(5))>>))

\* size.x: a token with a value and nothing else
BareToken == Place(<<s_size, s_x>>, Obj(<<KV(k_value, Num(4))>>))

AnchorTokens ==
  <<Place(<<s_color, s_white>>,
          TokenNode(s_color, ColorValue(0, 0, 100, s_hexWhite), Str(s_descWhite))),
    Place(<<s_color, s_black>>,
          TokenNode(s_color, ColorValue(0, 0, 0, s_hexBlack), Str(s_descBlack)))>>

\* opacity.*: numbers at and beyond the ends of the range 0..1
OpacityTokens ==
  <<Place(<<s_opacity, s_zero>>, TokenNode(s_number, Num(0), Str(s_descOpacity))),
    Place(<<s_opacity, s_one>>, TokenNode(s_number, Num(1), Str(s_descOpacity))),
    Place(<<s_opacity, s_under>>, TokenNode(s_number, Frac(-1, 10000), Str(s_descOpacity))),
    Place(<<s_opacity, s_over>>, TokenNode(s_number, Frac(10001, 10000), Str(s_descOpacity)))>>

\* duration.fast: a kind without a validator, a string value, a description
\* of 5 characters; primitive.color.red and the token named semantic: paths
\* that begin with a layer name; color.alias: a colour written as a reference;
\* a node with a value below the token duration.fast, one below the metadata
\* key duration.$meta, and the token size.list.0 in a sequence
UnusualPrimitives ==
  <<Place(<<s_duration, s_fast>>,
          Obj(<<KV(k_type, Str(s_duration)), KV(k_value, Str(s_200ms)),
                KV(k_description, Str(s_descShort)),
                KV(s_inner, Obj(<<KV(k_value, Num(1))>>))>>)),
    Place(<<s_duration, s_dollarMeta, s_inner>>, Obj(<<KV(k_value, Num(1))>>)),
    Place(<<s_size, s_list>>,
          Arr(<<TokenNode(s_duration, Str(s_200ms), Str(s_descOpacity))>>)),
    Place(<<s_primitive, s_color, s_red>>,
          TokenNode(s_color, ColorValue(0, 91, 60, s_hexBrand), Str(s_descBrand))),
    Place(<<s_semantic>>,
          TokenNode(s_color, ColorValue(0, 91, 60, s_hexBrand), Str(s_descBrand))),
    Place(<<s_color, s_alias>>, TokenNode(s_color, Str(s_refBrand), Str(s_descBrand)))>>

PrimitivePool ==
  <<(<<BrandToken>>), (<<StringDimensionToken>>), DeepPrimitives,
    (<<NumberDescriptionToken>>), (<<BareToken>>), AnchorTokens,
    OpacityTokens, UnusualPrimitives>>

\* color.text.brand: a reference to color.brand.600
LinkToken == Place(<<s_color, s_text, s_brand>>,
                   TokenNode(s_color, Str(s_refBrand), Str(s_descLink)))

\* the same token with the reference written with the layer name
LayerQualifiedToken == Place(<<s_color, s_text, s_brand>>,
                             TokenNode(s_color, Str(s_refLayer), Str(s_descLink)))

\* color.link.a and color.link.b reference each other; color.link.self
\* references itself
CycleTokens ==
  <<Place(<<s_color, s_link, s_a>>, TokenNode(s_color, Str(s_refB), Str(s_descLink))),
    Place(<<s_color, s_link, s_b>>, TokenNode(s_color, Str(s_refA), Str(s_descLink))),
    Place(<<s_color, s_link, s_self>>, TokenNode(s_color, Str(s_refSelf), Str(s_descLink)))>>

\* shadow.md: a shadow sequence whose only member is the number 5
BadShadowToken == Place(<<s_shadow, s_md>>,
                        TokenNode(s_shadow, Arr(<<Num(5)>>), Str(s_descShadow)))

\* typography.body.md.default: a composite with references at two depths
CompositeToken ==
  Place(<<s_typography, s_body, s_md, s_default>>,
        TokenNode(s_typography,
                  Obj(<<KV(s_fontFamily, Str(s_refMissing)),
                        KV(s_fontSize, Str(s_refSpacing)),
                        KV(s_fontWeight, Num(700)),
                        KV(s_lineHeight,
                           Obj(<<KV(s_base, Arr(<<Str(s_refMissing), Str(s_refBrand)>>))>>))>>),
                  Str(s_descBody)))

\* semantic tokens of 5 segments, with and without a trailing state name,
\* and one of 4 segments with a state name
DeepSemantics ==
  <<Place(<<s_color, s_background, s_neutral, s_base, s_default>>,
          TokenNode(s_color, Str(s_refBrand), Str(s_descLink))),
    Place(<<s_color, s_border, s_neutral, s_base, s_strong>>,
          TokenNode(s_color, Str(s_refBrand), Str(s_descLink))),
    Place(<<s_color, s_button, s_brand, s_hover>>,
          TokenNode(s_color, Str(s_refBrand), Str(s_descLink)))>>

\* spacing.inset: a semantic dimension written as the string "16px"
SemanticStringDimensionToken ==
  Place(<<s_spacing, s_inset>>, TokenNode(s_dimension, Str(s_16px), Str(s_descSpacing)))

\* references written in the extensions of a token: two in its contrast
\* block, one as its opacity
ReferenceExtensions ==
  Obj(<<KV(s_contrast, Obj(<<KV(s_ratio, Str(s_ratio45)),
                            KV(s_background, Str(s_refGone)),
                            KV(s_foreground, Str(s_refLayer))>>)),
        KV(s_opacity, Str(s_refOpacityLayer))>>)

\* duration.slow: a kind without a validator and a sequence as value;
\* semantic.color.text and the token named primitive: paths that begin with
\* a layer name; size.y: a value and nothing else; typography.alias: a
\* composite written as a reference; color.text.muted: a description of 5
\* characters and references in its extensions; a node with a value below
\* the token duration.slow and one below the metadata key duration.$meta
UnusualSemantics ==
  <<Place(<<s_duration, s_slow>>,
          Obj(<<KV(k_type, Str(s_duration)), KV(k_value, Arr(<<Num(5)>>)),
                KV(k_description, Str(s_descBody)),
                KV(s_inner, Obj(<<KV(k_value, Num(1))>>))>>)),
    Place(<<s_duration, s_dollarMeta, s_inner>>, Obj(<<KV(k_value, Num(1))>>)),
    Place(<<s_semantic, s_color, s_text>>, TokenNode(s_color, Str(s_refBrand), Str(s_descLink))),
    Place(<<s_primitive>>, TokenNode(s_color, Str(s_refBrand), Str(s_descLink))),
    Place(<<s_size, s_y>>, Obj(<<KV(k_value, Num(4))>>)),
    Place(<<s_typography, s_alias>>, TokenNode(s_typography, Str(s_refBody), Str(s_descBody))),
    Place(<<s_color, s_text, s_muted>>,
          Obj(<<KV(k_type, Str(s_color)), KV(k_value, Str(s_refBrand)),
                KV(k_description, Str(s_descShort)), KV(k_extensions, ReferenceExtensions)>>))>>

SemanticPool ==
  <<(<<LinkToken>>), (<<LayerQualifiedToken>>), CycleTokens, (<<BadShadowToken>>),
    (<<CompositeToken>>), DeepSemantics, (<<SemanticStringDimensionToken>>),
    UnusualSemantics>>

\* The complete corpus: the twelve steps of the six colour categories, white
\* and black; a semantic token for each essential pattern, written with a
\* dotted first key so that its path has 4 segments, one of them with a
\* contrast block.
ScaleToken == TokenNode(s_color, ColorValue(217, 91, 60, s_hexBrand), Str(s_descStep))

CompleteScale == Obj([i \in 1..Len(expectedScales) |-> KV(expectedScales[i], ScaleToken)])

CompleteColors ==
  Obj([i \in 1..Len(colorCategories) |-> KV(colorCategories[i], CompleteScale)]
      \o <<KV(s_white, AnchorTokens[1].node), KV(s_black, AnchorTokens[2].node)>>)

TypographyValue ==
  Obj(<<KV(s_fontFamily, Arr(<<Str(s_sans)>>)),
        KV(s_fontSize, Obj(<<KV(s_value, Num(16)), KV(s_unit, Str(s_px))>>)),
        KV(s_fontWeight, Num(400)),
        KV(s_lineHeight, Frac(3, 2))>>)

ContrastExtension ==
  Obj(<<KV(s_contrast, Obj(<<KV(s_ratio, Str(s_ratio45)), KV(s_background, Str(s_refWhite))>>))>>)

EssentialTokens ==
  <<Place(<<s_dottedText, s_neutral, s_base, s_default>>,
          Obj(<<KV(k_type, Str(s_color)), KV(k_value, Str(s_refNeutral)),
                KV(k_description, Str(s_descLink)), KV(k_extensions, ContrastExtension)>>)),
    Place(<<s_dottedBackground, s_neutral, s_base, s_default>>,
          TokenNode(s_color, Str(s_refWhite), Str(s_descLink))),
    Place(<<s_dottedBorder, s_neutral, s_base, s_default>>,
          TokenNode(s_color, Str(s_refNeutral), Str(s_descLink))),
    Place(<<s_typography, s_body, s_md, s_default>>,
          TokenNode(s_typography, TypographyValue, Str(s_descBody))),
    Place(<<s_typography, s_heading>>,
          TokenNode(s_typography, TypographyValue, Str(s_descBody)))>>

CompletePrimitive == Obj(<<KV(s_color, CompleteColors)>>)
CompleteSemantic == BuildTree(EssentialTokens)

\* the complete primitives without color.neutral.700, color.error.300 and
\* color.error.1100
IncompletePrimitive ==
  Obj(<<KV(s_color,
           Obj([i \in 1..Len(CompleteColors.e) |->
                  IF CompleteColors.e[i].k = s_neutral
                  THEN KV(s_neutral,
                          Obj(SelectSeq(CompleteScale.e, LAMBDA kv : kv.k # s_700)))
                  ELSE IF CompleteColors.e[i].k = s_error
                  THEN KV(s_error,
                          Obj(SelectSeq(CompleteScale.e,
                                        LAMBDA kv : kv.k \notin {s_300, s_1100})))
                  ELSE CompleteColors.e[i]]))>>)

\* the complete primitives and spacing.md written as "16px"
DefectivePrimitive ==
  Insert(CompletePrimitive, StringDimensionToken.path, StringDimensionToken.node)

----------------------------------------------------------------------------
(* The run, src/audit-tokens.js:709-719: the six checkers in order, the    *)
(* summary, the exit.  No checker call is inside a try block, so an        *)
(* exception thrown by a checker ends the process with status 1 before the *)
(* summary is printed.                                                     *)

NotYet == -1

\* returned holds what a value validator called on its own has returned
NotCalled == "none"

Init ==
  /\ \/ /\ primitiveTokens \in Corpora(PrimitivePool, MaxPrimitiveBundles)
        /\ semanticTokens \in Corpora(SemanticPool, MaxSemanticBundles)
     \/ /\ primitiveTokens \in {CompletePrimitive, DefectivePrimitive, IncompletePrimitive}
        /\ semanticTokens = CompleteSemantic
  /\ results = EmptyResults
  /\ pc = "checkDTCGCompliance"
  /\ score = NotYet
  /\ verdict = "none"
  /\ exitCode = NotYet
  /\ previous = <<>>
  /\ returned = NotCalled

\* one checker call of the main sequence
Checker(name, r, next) ==
  /\ pc = name
  /\ results' = r.res
  /\ pc' = IF r.thrown THEN "uncaught" ELSE next
  /\ UNCHANGED <<primitiveTokens, semanticTokens, score, verdict, exitCode, previous, returned>>

CheckDTCGCompliance ==
  Checker("checkDTCGCompliance",
          checkDTCGCompliance(primitiveTokens, semanticTokens, results),
          "checkReferenceIntegrity")

RECURSIVE ChaseRuns(_, _, _)
\* following the reference written as the value of the token at a name, and
\* then the one of its target, is still under way after a number of steps
ChaseRuns(visits, name, steps) ==
  IF steps = 0 THEN TRUE
  ELSE \E i \in 1..Len(visits) :
         /\ getTokenPath(visits[i].path) = name
         /\ IsReference(Get(visits[i].token, k_value))
         /\ ChaseRuns(visits, slice1(Get(visits[i].token, k_value).s), steps - 1)

ChaseNeverEnds(visits) ==
  \E i \in 1..Len(visits) : ChaseRuns(visits, getTokenPath(visits[i].path), Len(visits) + 1)

\* a reference check that follows each reference to its target, and so does
\* not return when the references form a cycle
ChaseReferences ==
  IF ChaseNeverEnds(TokenVisits(semanticTokens, <<>>))
  THEN /\ pc \in {"checkReferenceIntegrity", "followReference"}
       /\ pc' = IF pc = "followReference" THEN "checkReferenceIntegrity" ELSE "followReference"
       /\ UNCHANGED <<primitiveTokens, semanticTokens, results, score, verdict, exitCode,
                      previous, returned>>
  ELSE Checker("checkReferenceIntegrity",
               checkReferenceIntegrity(primitiveTokens, semanticTokens, results),
               "checkNamingConventions")

CheckReferenceIntegrity ==
  Checker("checkReferenceIntegrity",
          checkReferenceIntegrity(primitiveTokens, semanticTokens, results),
          "checkNamingConventions")

CheckNamingConventions ==
  Checker("checkNamingConventions",
          checkNamingConventions(primitiveTokens, semanticTokens, results),
          "checkValueFormatConsistency")

CheckValueFormatConsistency ==
  Checker("checkValueFormatConsistency",
          checkValueFormatConsistency(primitiveTokens, semanticTokens, results),
          "checkCompleteness")

CheckCompleteness ==
  Checker("checkCompleteness",
          checkCompleteness(primitiveTokens, semanticTokens, results),
          "checkQuality")

CheckQuality ==
  Checker("checkQuality",
          checkQuality(primitiveTokens, semanticTokens, results),
          "printResults")

\* line 716
PrintResults ==
  /\ pc = "printResults"
  /\ score' = Score(results)
  /\ verdict' = Verdict(results)
  /\ pc' = "exit"
  /\ UNCHANGED <<primitiveTokens, semanticTokens, results, exitCode, previous, returned>>

\* line 719
Exit ==
  /\ pc = "exit"
  /\ exitCode' = ExitStatus(results)
  /\ pc' = "exited"
  /\ UNCHANGED <<primitiveTokens, semanticTokens, results, score, verdict, previous, returned>>

\* an uncaught exception: the runtime reports it and exits with status 1
UncaughtException ==
  /\ pc = "uncaught"
  /\ exitCode' = UncaughtExitStatus
  /\ pc' = "aborted"
  /\ UNCHANGED <<primitiveTokens, semanticTokens, results, score, verdict, previous, returned>>

Next ==
  \/ CheckDTCGCompliance
  \/ CheckReferenceIntegrity
  \/ CheckNamingConventions
  \/ CheckValueFormatConsistency
  \/ CheckCompleteness
  \/ CheckQuality
  \/ PrintResults
  \/ Exit
  \/ UncaughtException

Spec == Init /\ [][Next]_vars

Labels ==
  {"checkDTCGCompliance", "checkReferenceIntegrity", "checkNamingConventions",
   "checkValueFormatConsistency", "checkCompleteness", "checkQuality", "printResults",
   "exit", "exited", "uncaught", "aborted"}

\* control leaves the call it is at, unless the process has ended
Proceed == pc \notin {"exited", "aborted"} /\ pc' \in Labels \ {pc}

\* The script is one synchronous sequence of calls (lines 709-719) on one
\* thread: while the process has not ended, control moves on.
SpecLive == Init /\ [][Next]_vars /\ WF_pc(Proceed)

\* what a finished run has reported: the buckets, the stats and the score
Report == [results |-> results, score |-> score]

\* the collector a kept one would be, had the script not built a new one
Carry(res) == res

\* lines 27-39: the script builds its collector when it starts
Restart(res) == EmptyResults

\* The script is started again on the same token files; previous keeps the
\* reports of the earlier runs.
Rerun ==
  /\ pc = "exited"
  /\ Len(previous) + 1 < MaxRuns
  /\ previous' = Append(previous, Report)
  /\ results' = Restart(results)
  /\ pc' = "checkDTCGCompliance"
  /\ score' = NotYet
  /\ verdict' = "none"
  /\ exitCode' = NotYet
  /\ UNCHANGED <<primitiveTokens, semanticTokens, returned>>

NextAgain == Next \/ Rerun

SpecAgain == Init /\ [][NextAgain]_vars

----------------------------------------------------------------------------
(* A value validator called on its own, src/audit-tokens.js:94-226: the    *)
(* value of one token is handed to the validator of its kind, as the       *)
(* callbacks of lines 272-275 and 416-444 do; the collector takes the      *)
(* findings and returned takes what the call returns.                      *)

\* an object of the fields that are given
Fields(entries) == Obj(SelectSeq(entries, LAMBDA kv : kv.v # Undefined))

ColorSpaceInputs == {Str(s_hsl), Str(s_rgb), Undefined}

ComponentsInputs ==
  {Arr(<<Num(217), Num(91), Num(60)>>), Arr(<<Num(0), Num(0), Num(0)>>),
   Arr(<<Num(360), Num(100), Num(100)>>), Arr(<<Num(361), Num(91), Num(60)>>),
   Arr(<<Num(-1), Num(101), Num(101)>>), Arr(<<Num(217), Num(91)>>), Str(s_hsl), Undefined}

AlphaInputs ==
  {Num(1), Num(0), Frac(1, 2), Frac(-1, 10000), Frac(10001, 10000), Str(s_one), Undefined}

HexInputs ==
  {Str(s_hexBrand), Str(s_hexUpper), Str(s_hexShort), Str(s_hexBare), Str(s_hexLetter),
   Str(s_hexLong), Arr(<<Str(s_hexBrand)>>), Undefined}

ColorInputs ==
  {Fields(<<KV(s_colorSpace, c), KV(s_components, n), KV(s_alpha, a), KV(s_hex, h)>>) :
     c \in ColorSpaceInputs, n \in ComponentsInputs, a \in AlphaInputs, h \in HexInputs}
  \cup {Str(s_hexBrand), Null, Num(5), Bool(TRUE), Arr(<<>>)}

DimensionInputs ==
  {Fields(<<KV(s_value, v), KV(s_unit, u)>>) :
     v \in {Num(16), Frac(1, 2), Str(s_16px), Undefined},
     u \in {Str(s_px), Str(s_em), Str(s_rem), Num(1), Undefined}}
  \cup {Str(s_16px), Null, Num(16), Bool(FALSE), Arr(<<>>)}

TypographyInputs ==
  {TypographyValue, Fields(<<KV(s_fontFamily, Arr(<<Str(s_sans)>>))>>), Obj(<<>>),
   Arr(<<>>), Str(s_refBody), Null, Num(5)}

ShadowLayer ==
  Obj(<<KV(s_offsetX, Num(0)), KV(s_offsetY, Num(4)), KV(s_blur, Num(8)),
        KV(s_color, Str(s_refBrand))>>)

ShadowWithoutColor == Obj(<<KV(s_offsetX, Num(0)), KV(s_offsetY, Num(4)), KV(s_blur, Num(8))>>)

ShadowInputs ==
  {ShadowLayer, ShadowWithoutColor, Obj(<<>>), Arr(<<>>), Arr(<<ShadowLayer, ShadowLayer>>),
   Arr(<<ShadowLayer, ShadowWithoutColor>>), Arr(<<ShadowWithoutColor, Obj(<<>>)>>),
   Arr(<<Num(5)>>), Arr(<<ShadowLayer, Null>>), Str(s_refBrand), Null, Num(5)}

\* the token files of a call: one token of the kind, with the value
OneToken(path, type, value) ==
  BuildTree(<<Place(path, TokenNode(type, value, Str(s_descBrand)))>>)

NoTokens == Obj(<<>>)

InitValidators ==
  /\ \/ /\ \/ \E v \in ColorInputs :
                primitiveTokens = OneToken(<<s_color, s_brand, s_600>>, s_color, v)
           \/ \E v \in DimensionInputs :
                primitiveTokens = OneToken(<<s_spacing, s_md>>, s_dimension, v)
        /\ semanticTokens = NoTokens
     \/ /\ primitiveTokens = NoTokens
        /\ \/ \E v \in TypographyInputs :
                semanticTokens = OneToken(<<s_typography, s_body>>, s_typography, v)
           \/ \E v \in ShadowInputs :
                semanticTokens = OneToken(<<s_shadow, s_md>>, s_shadow, v)
  /\ results = EmptyResults
  /\ pc = "validate"
  /\ score = NotYet
  /\ verdict = "none"
  /\ exitCode = NotYet
  /\ previous = <<>>
  /\ returned = NotCalled

\* the call returns, or the exception it throws leaves it
Return(out) ==
  /\ results' = out.r.res
  /\ returned' = IF out.r.thrown THEN NotCalled ELSE out.ret
  /\ pc' = IF out.r.thrown THEN "uncaught" ELSE "returned"
  /\ UNCHANGED <<primitiveTokens, semanticTokens, score, verdict, exitCode, previous>>

\* the one token of a tree
TheToken(tree) == TokenVisits(tree, <<>>)[1]

CalledOn(tree, type) ==
  /\ pc = "validate"
  /\ Len(TokenVisits(tree, <<>>)) = 1
  /\ StrictEqStr(Get(TheToken(tree).token, k_type), type)

Argument(tree) == Get(TheToken(tree).token, k_value)

\* lines 273 and 417
CallValidateColor ==
  /\ CalledOn(primitiveTokens, s_color)
  /\ Return(validateColorValue(Start(results, NoLocals), Argument(primitiveTokens),
                               getTokenPath(TheToken(primitiveTokens).path)))

\* lines 275 and 426
CallValidateDimension ==
  /\ CalledOn(primitiveTokens, s_dimension)
  /\ Return(validateDimensionValue(Start(results, NoLocals), Argument(primitiveTokens),
                                   getTokenPath(TheToken(primitiveTokens).path)))

\* line 435
CallValidateTypography ==
  /\ CalledOn(semanticTokens, s_typography)
  /\ Return(validateTypographyValue(Start(results, NoLocals), Argument(semanticTokens),
                                    getTokenPath(TheToken(semanticTokens).path)))

\* line 444
CallValidateShadow ==
  /\ CalledOn(semanticTokens, s_shadow)
  /\ Return(validateShadowValue(Start(results, NoLocals), Argument(semanticTokens),
                                getTokenPath(TheToken(semanticTokens).path)))

NextValidators ==
  \/ CallValidateColor
  \/ CallValidateDimension
  \/ CallValidateTypography
  \/ CallValidateShadow

SpecValidators == InitValidators /\ [][NextValidators]_vars

----------------------------------------------------------------------------
(* Properties of the run. *)

Passes == Len(results.pass)
Warnings == Len(results.warnings)
Criticals == Len(results.critical)
TotalChecks == Passes + Warnings + Criticals

\* printResults has run
Reported == pc \in {"exit", "exited"}

\* how many findings of a bucket satisfy a test
CountIn(bucket, Test(_)) == Cardinality({i \in 1..Len(bucket) : Test(bucket[i])})

MessagesOf(bucket) == [i \in 1..Len(bucket) |-> bucket[i].msg]

\* the tokens of a tree, each tagged with its layer
Tagged(visits, layer) ==
  {[layer |-> layer, path |-> visits[i].path, token |-> visits[i].token] :
     i \in 1..Len(visits)}

TokensOf(tree, layer) == Tagged(TokenVisits(tree, <<>>), layer)

SemanticTokens == TokensOf(semanticTokens, "semantic")

AllTokens == TokensOf(primitiveTokens, "primitive") \cup SemanticTokens

PathsOf(tokens) == {getTokenPath(t.path) : t \in tokens}

\* C1: once the summary is printed, the score is the integer nearest to
\* 100 * P / (P + W + C), halves rounded up, P, W and C being the lengths of
\* the pass, warning and critical buckets.
ScoreIsRoundedRatio ==
  (Reported /\ TotalChecks > 0) =>
     /\ 2 * TotalChecks * score - TotalChecks <= 200 * Passes
     /\ 200 * Passes < 2 * TotalChecks * score + TotalChecks

\* a printed score whose ratio lies exactly halfway between two integers
ScoreRoundsHalfUp ==
  /\ pc = "exited"
  /\ TotalChecks > 0
  /\ 200 * Passes = 2 * TotalChecks * score - TotalChecks

\* C2: the verdict is produced by the summary only, and is "PRODUCTION READY"
\* iff the critical and warning buckets are empty, "PRODUCTION READY WITH
\* WARNINGS" iff the critical bucket is empty and the warning bucket is not,
\* "NOT PRODUCTION READY" iff the critical bucket is not empty.
VerdictIsThreeWay ==
  /\ ~Reported => verdict = "none"
  /\ Reported =>
       /\ verdict \in {"PRODUCTION READY", "PRODUCTION READY WITH WARNINGS",
                       "NOT PRODUCTION READY"}
       /\ verdict = "PRODUCTION READY" <=> (Criticals = 0 /\ Warnings = 0)
       /\ verdict = "PRODUCTION READY WITH WARNINGS" <=> (Criticals = 0 /\ Warnings > 0)
       /\ verdict = "NOT PRODUCTION READY" <=> Criticals > 0

\* a finished run with warnings, no critical finding and a score below 50
ReadyWithWarnings ==
  /\ pc = "exited"
  /\ verdict = "PRODUCTION READY WITH WARNINGS"
  /\ Criticals = 0
  /\ Warnings > Passes

\* C3: a run that reaches process.exit at the end of the script exits with
\* status 0 iff the critical bucket is empty, whatever the warnings and
\* passes.
ExitStatusFollowsCritical ==
  pc = "exited" => (exitCode = 0 <=> Criticals = 0) /\ (exitCode # 0 <=> Criticals > 0)

\* a run that exits with status 0 with warnings recorded
ExitZeroWithWarnings == pc = "exited" /\ exitCode = 0 /\ Warnings > 0 /\ Passes > 0

----------------------------------------------------------------------------
(* Properties of the reference check. *)

\* the reference check has just returned
ReferencesChecked == pc = "checkNamingConventions"

\* the members of a composite value
MembersOf(value) ==
  IF value.t = "array" THEN {value.a[i] : i \in 1..Len(value.a)}
  ELSE IF value.t = "object" THEN {value.e[i].v : i \in 1..Len(value.e)}
  ELSE {}

\* a string written between the reference delimiters
Bracketed(text) == Len(text) >= 1 /\ text[1] = "{" /\ text[Len(text)] = "}"

RECURSIVE ReferenceNames(_)
\* the names between the delimiters of the references written in a value,
\* at every depth
ReferenceNames(value) ==
  IF value.t = "string"
  THEN IF Bracketed(value.s) THEN {SubSeq(value.s, 2, Len(value.s) - 1)} ELSE {}
  ELSE UNION {ReferenceNames(m) : m \in MembersOf(value)}

RECURSIVE Occurrences(_, _)
\* how many times the reference to a name is written in a value: a composite
\* is the sum of its members
Occurrences(value, name) ==
  IF value.t = "string"
  THEN IF value.s = <<"{">> \o name \o <<"}">> THEN 1 ELSE 0
  ELSE IF value.t = "array"
  THEN LET sum[i \in 0..Len(value.a)] ==
             IF i = 0 THEN 0 ELSE sum[i - 1] + Occurrences(value.a[i], name)
       IN sum[Len(value.a)]
  ELSE IF value.t = "object"
  THEN LET sum[i \in 0..Len(value.e)] ==
             IF i = 0 THEN 0 ELSE sum[i - 1] + Occurrences(value.e[i].v, name)
       IN sum[Len(value.e)]
  ELSE 0

\* the two places of a token the reference check reads
CheckedValues(token) == <<Get(token, k_value), Get(Get(token, k_extensions), s_opacity)>>

NamesIn(token) ==
  ReferenceNames(CheckedValues(token)[1]) \cup ReferenceNames(CheckedValues(token)[2])

WrittenIn(token, name) ==
  Occurrences(CheckedValues(token)[1], name) + Occurrences(CheckedValues(token)[2], name)

RECURSIVE SumOf(_)
\* the sum of the values of a function of finite domain
SumOf(f) ==
  IF DOMAIN f = {} THEN 0
  ELSE LET x == CHOOSE y \in DOMAIN f : TRUE
       IN f[x] + SumOf([y \in DOMAIN f \ {x} |-> f[y]])

\* the sum of Weight over a finite set
SumOver(set, Weight(_)) == SumOf([x \in set |-> Weight(x)])

\* how many times the tokens at tokenPath write a reference to name
WrittenAt(tokens, tokenPath, name) ==
  SumOver({t \in tokens : getTokenPath(t.path) = tokenPath},
          LAMBDA t : WrittenIn(t.token, name))

DanglingFindings(tokenPath, name) ==
  CountIn(results.critical,
          LAMBDA f : f = Finding("ReferenceNotFound", tokenPath, <<Str(name)>>))

\* the dangling references written by tokens, paths being the dot-joined
\* paths of the tokens of both trees
DanglingWritten(tokens, paths) ==
  SumOver(tokens, LAMBDA t : SumOver(NamesIn(t.token) \ paths,
                                     LAMBDA name : WrittenIn(t.token, name)))

DanglingRule(tokens, paths) ==
  /\ \A t \in tokens :
       \A name \in NamesIn(t.token) :
         DanglingFindings(getTokenPath(t.path), name) =
           IF name \in paths THEN 0 ELSE WrittenAt(tokens, getTokenPath(t.path), name)
  /\ CountIn(results.critical, LAMBDA f : f.msg = "ReferenceNotFound") =
       DanglingWritten(tokens, paths)
  /\ results.stats.invalidReferences = DanglingWritten(tokens, paths)

\* C5: when the reference check returns, each reference written in the value
\* of a semantic token (at any depth) to a name that is the dot-joined path
\* of no primitive and of no semantic token has one "non-existent token"
\* critical finding per occurrence, a reference to an indexed name has none,
\* and the invalid-reference count is the number of those findings.
DanglingIffUnindexed == ReferencesChecked => DanglingRule(SemanticTokens, PathsOf(AllTokens))

NestedDangling(tokens, paths) ==
  \E t \in tokens :
    /\ \E name \in NamesIn(t.token) \ paths :
         /\ WrittenIn(t.token, name) = 2
         /\ DanglingFindings(getTokenPath(t.path), name) = 2
    /\ \E name \in NamesIn(t.token) \cap paths :
         DanglingFindings(getTokenPath(t.path), name) = 0

\* a composite value with the same dangling reference at two depths, a
\* resolved reference beside them, checked
NestedDanglingReported ==
  ReferencesChecked /\ NestedDangling(SemanticTokens, PathsOf(AllTokens))

\* the names the tokens at a path refer to
Targets(tokens, tokenPath) ==
  UNION {NamesIn(t.token) : t \in {u \in tokens : getTokenPath(u.path) = tokenPath}}

RECURSIVE ReachableFrom(_, _, _)
\* the names reached by following references from a frontier
ReachableFrom(tokens, seen, frontier) ==
  IF frontier \subseteq seen THEN seen
  ELSE ReachableFrom(tokens, seen \cup frontier,
                     UNION {Targets(tokens, q) : q \in frontier \ seen})

\* some token reaches itself by following references
CycleIn(tokens) ==
  \E t \in tokens :
    getTokenPath(t.path) \in ReachableFrom(tokens, {}, Targets(tokens, getTokenPath(t.path)))

\* C4: when the references between tokens form a cycle, the reference check
\* adds exactly one critical finding reporting the cycle and records no
\* "no circular references" pass.
CycleIsReported ==
  (ReferencesChecked /\ CycleIn(AllTokens)) =>
     /\ CountIn(results.critical, LAMBDA f : f.msg = "CircularReference") = 1
     /\ CountIn(results.pass, LAMBDA f : f.msg = "NoCircularReferences") = 0

\* scenario B: color.brand.600 and a semantic token whose value is
\* {primitive.color.brand.600}
ScenarioB ==
  /\ primitiveTokens = BuildTree(<<BrandToken>>)
  /\ semanticTokens = BuildTree(<<LayerQualifiedToken>>)

\* C6 as stated: scenario B ends with exactly one critical finding, the one
\* citing the layer prefix.
ScenarioBOneCritical ==
  (pc = "exited" /\ ScenarioB) => MessagesOf(results.critical) = <<"ReferenceLayerPrefix">>

\* C6: scenario B ends with exactly two critical findings for the semantic
\* token: the reference names no token, and it carries a layer prefix.
ScenarioBTwoCriticals ==
  (pc = "exited" /\ ScenarioB) =>
     results.critical =
       <<Finding("ReferenceNotFound", getTokenPath(LayerQualifiedToken.path),
                 <<Str(slice1(s_refLayer))>>),
         Finding("ReferenceLayerPrefix", getTokenPath(LayerQualifiedToken.path),
                 <<Str(slice1(s_refLayer))>>)>>

ScenarioBFinished == pc = "exited" /\ ScenarioB /\ exitCode = 1

----------------------------------------------------------------------------
(* Properties of full runs over the scenario corpora. *)

\* scenario A: color.brand.600 and a semantic token that references it
ScenarioA ==
  /\ primitiveTokens = BuildTree(<<BrandToken>>)
  /\ semanticTokens = BuildTree(<<LinkToken>>)

\* scenario C: a corpus whose only defect is the primitive dimension
\* spacing.md written as "16px": scenario A with that token, or the complete
\* corpus with it
ScenarioC ==
  \/ /\ primitiveTokens = BuildTree(<<BrandToken, StringDimensionToken>>)
     /\ semanticTokens = BuildTree(<<LinkToken>>)
  \/ /\ primitiveTokens = DefectivePrimitive
     /\ semanticTokens = CompleteSemantic

\* scenario A with the semantic dimension spacing.inset written as "16px"
ScenarioCSemantic ==
  /\ primitiveTokens = BuildTree(<<BrandToken>>)
  /\ semanticTokens = BuildTree(<<LinkToken, SemanticStringDimensionToken>>)

StringFormatFinding ==
  Finding("DimensionStringFormat", getTokenPath(StringDimensionToken.path), <<Str(s_16px)>>)

\* C7 as stated: scenario C ends with exactly one critical finding, the
\* format finding of the dimension token.
ScenarioCOneCritical ==
  (pc = "exited" /\ ScenarioC) => results.critical = <<StringFormatFinding>>

\* C7: scenario C ends with exactly two critical findings, both the format
\* finding of the dimension token (the compliance check and the value-format
\* check each report it); written in the semantic tree, the same value is
\* not reported at all.
ScenarioCTwoCriticals ==
  /\ (pc = "exited" /\ ScenarioC) =>
        results.critical = <<StringFormatFinding, StringFormatFinding>>
  /\ (pc = "exited" /\ ScenarioCSemantic) => results.critical = <<>>

\* the complete corpus with the string dimension, audited: no warning, not
\* production ready
ScenarioCFinished ==
  /\ pc = "exited"
  /\ primitiveTokens = DefectivePrimitive
  /\ Warnings = 0
  /\ verdict = "NOT PRODUCTION READY"

\* C8 as stated: scenario A ends with an empty critical bucket and a score
\* of 100.
ScenarioAPerfectScore ==
  (pc = "exited" /\ ScenarioA) => (results.critical = <<>> /\ score = 100)

\* C8: scenario A ends with an empty critical bucket, 9 passes and the 15
\* warnings of the completeness and quality checks, hence a score of 38.
ScenarioAScore ==
  (pc = "exited" /\ ScenarioA) =>
     /\ results.critical = <<>>
     /\ Passes = 9
     /\ Warnings = 15
     /\ \A i \in 1..Warnings :
          results.warnings[i].msg \in
            {"MissingEssential", "ScaleIncomplete", "NoInteractiveStates",
             "AnchorMissing", "NoAccessibilityInfo"}
     /\ score = 38

ScenarioAFinished == pc = "exited" /\ ScenarioA /\ exitCode = 0 /\ score < 100

\* the depth check has returned
DepthChecked == pc # "checkDTCGCompliance"

\* the depth warnings that name a token's path and its number of segments
DepthWarnings(t) ==
  CountIn(results.warnings,
          LAMBDA f : f = Finding("NestingDepth", getTokenPath(t.path), <<Num(Len(t.path))>>))

\* how many of the tokens are written at the path of t
TokensAt(tokens, t) == Cardinality({u \in tokens : u.path = t.path})

EndsInState(t) == t.path[Len(t.path)] \in {states[i] : i \in 1..Len(states)}

ToleranceRule(tokens) ==
  /\ \A t \in tokens :
       /\ Len(t.path) = MaxDepth => DepthWarnings(t) = 0
       /\ Len(t.path) = MaxDepth + 1 =>
            DepthWarnings(t) = IF EndsInState(t) THEN 0 ELSE TokensAt(tokens, t)
  /\ CountIn(results.critical, LAMBDA f : f.msg = "NestingDepth") = 0

DepthRule(tokens) ==
  /\ \A t \in tokens :
       DepthWarnings(t) = IF Len(t.path) <= MaxDepth THEN 0 ELSE TokensAt(tokens, t)
  /\ CountIn(results.warnings, LAMBDA f : f.msg = "NestingDepth") =
       Cardinality({t \in tokens : Len(t.path) > MaxDepth})
  /\ CountIn(results.critical, LAMBDA f : f.msg = "NestingDepth") = 0

DepthCases(tokens) ==
  /\ \E t \in tokens : Len(t.path) = MaxDepth /\ EndsInState(t) /\ DepthWarnings(t) = 0
  /\ \E t \in tokens : Len(t.path) = MaxDepth + 1 /\ EndsInState(t) /\ DepthWarnings(t) = 1
  /\ \E t \in tokens : Len(t.path) = MaxDepth + 1 /\ ~EndsInState(t) /\ DepthWarnings(t) = 1

NoCheckerAborts == pc \notin {"uncaught", "aborted"}

----------------------------------------------------------------------------
(* Properties of repeated runs. *)

----------------------------------------------------------------------------
(* Properties of the statistics. *)

\* C12: at the end of a full run the per-layer token counts are the numbers
\* of tokens of the primitive and of the semantic tree, and the total count
\* is their sum.
StatsCountTokens ==
  pc = "exited" =>
    /\ results.stats.primitiveTokens = Len(TokenVisits(primitiveTokens, <<>>))
    /\ results.stats.semanticTokens = Len(TokenVisits(semanticTokens, <<>>))
    /\ results.stats.totalTokens =
         Len(TokenVisits(primitiveTokens, <<>>)) + Len(TokenVisits(semanticTokens, <<>>))

----------------------------------------------------------------------------
(* Properties of the value-shape checks. *)

\* the findings of the value validators and of the per-kind value checks
ShapeMessages ==
  {"ColorStringFormat", "ColorInvalidFormat", "ColorMissingProps", "ColorSpaceNotHsl",
   "ColorComponentsArity", "HueRange", "SaturationRange", "LightnessRange", "AlphaRange",
   "HexInvalid", "DimensionStringFormat", "DimensionInvalidFormat", "DimensionMissingProps",
   "DimensionValueNotNumber", "DimensionUnitNotString", "DimensionUnexpectedUnit",
   "TypographyNotObject", "TypographyMissingProps", "ShadowNotObject", "ShadowMissingProps",
   "FontFamilyNotArray", "NumberTypeMismatch", "NumberNotNumeric", "FontWeightRange",
   "LineHeightRange", "OpacityRange"}

\* how many shape findings of either severity name a token path
ShapeFindings(tokenPath) ==
  CountIn(results.critical \o results.warnings,
          LAMBDA f : f.msg \in ShapeMessages /\ f.at = tokenPath)

\* the raw value of the token is a string between the reference delimiters
ReferenceValued(t) ==
  Get(t.token, k_value).t = "string" /\ Bracketed(Get(t.token, k_value).s)

\* C13: a token whose raw value is a reference, of whatever kind and in
\* either tree, has no value-shape finding at the end of a full run.
ReferencesSkipShapeChecks ==
  pc = "exited" =>
    \A t \in AllTokens : ReferenceValued(t) => ShapeFindings(getTokenPath(t.path)) = 0

----------------------------------------------------------------------------
(* Properties of the references written in extensions. *)

LayerQualified(name) == startsWith(name, s_primitiveDot) \/ startsWith(name, s_semanticDot)

LayerFindings(tokenPath, name) ==
  CountIn(results.critical,
          LAMBDA f : f = Finding("ReferenceLayerPrefix", tokenPath, <<Str(name)>>))

\* the names of the references written anywhere in the extensions of a token
ExtensionNames(t) == ReferenceNames(Get(t.token, k_extensions))

EveryExtensionRule(tokens, paths) ==
  \A t \in tokens :
    \A name \in ExtensionNames(t) :
      /\ name \notin paths => DanglingFindings(getTokenPath(t.path), name) >= 1
      /\ LayerQualified(name) => LayerFindings(getTokenPath(t.path), name) >= 1

\* C14: every reference written anywhere in the extensions of a
\* semantic token has a dangling finding when its target is in neither index
\* and a layer-prefix finding when its target is layer-qualified.
EveryExtensionChecked ==
  ReferencesChecked => EveryExtensionRule(SemanticTokens, PathsOf(AllTokens))

OpacityExtensionRule(tokens, paths) ==
  \A t \in tokens :
    \A name \in ExtensionNames(t) :
      /\ DanglingFindings(getTokenPath(t.path), name) =
           IF name \in paths THEN 0 ELSE WrittenAt(tokens, getTokenPath(t.path), name)
      /\ LayerFindings(getTokenPath(t.path), name) =
           IF LayerQualified(name) THEN WrittenAt(tokens, getTokenPath(t.path), name) ELSE 0

\* C14, what the run does instead: of the references written in the
\* extensions of a semantic token,
\* those of its opacity entry are checked by the rules of a value reference
\* (one dangling finding per occurrence of a target in neither index, one
\* layer-prefix finding per occurrence of a layer-qualified target); a
\* reference written elsewhere in the extensions, such as the background of
\* a contrast block, gets no finding.
OpacityExtensionChecked ==
  ReferencesChecked => OpacityExtensionRule(SemanticTokens, PathsOf(AllTokens))

ExtensionCases(tokens, paths) ==
  \E t \in tokens :
    /\ \E name \in ReferenceNames(Get(Get(t.token, k_extensions), s_opacity)) \ paths :
         /\ DanglingFindings(getTokenPath(t.path), name) = 1
         /\ LayerFindings(getTokenPath(t.path), name) = 1
    /\ \E name \in ReferenceNames(Get(Get(t.token, k_extensions), s_contrast)) \ paths :
         /\ LayerQualified(name)
         /\ DanglingFindings(getTokenPath(t.path), name) = 0
         /\ LayerFindings(getTokenPath(t.path), name) = 0

\* a checked token with a dangling layer-qualified opacity reference, reported
\* twice, and a dangling layer-qualified contrast reference, not reported
ExtensionsWalked == ReferencesChecked /\ ExtensionCases(SemanticTokens, PathsOf(AllTokens))

----------------------------------------------------------------------------
(* Properties of the kinds without a validator. *)

RegisteredKinds == {s_color, s_dimension, s_fontFamily, s_number, s_typography, s_shadow}

DeclaresUnregistered(t) ==
  Get(t.token, k_type).t = "string" /\ Get(t.token, k_type).s \notin RegisteredKinds

UnregisteredRule(tokens) ==
  \A t \in tokens :
    DeclaresUnregistered(t) => ShapeFindings(getTokenPath(t.path)) = 0

\* C15: at the end of a full run no shape finding, critical or warning, names
\* a token whose declared kind is none of color, dimension, fontFamily,
\* number, typography and shadow, whatever its value.
UnregisteredKindUnexamined == pc = "exited" => UnregisteredRule(AllTokens)

UnregisteredCases(tokens) ==
  /\ \E t \in tokens : /\ t.layer = "primitive"
                       /\ DeclaresUnregistered(t)
                       /\ Get(t.token, k_value).t = "string"
  /\ \E t \in tokens : /\ t.layer = "semantic"
                       /\ DeclaresUnregistered(t)
                       /\ Get(t.token, k_value).t = "array"

\* a finished run over a primitive duration token with a string value and a
\* semantic duration token with an array value
UnregisteredKindsAudited == pc = "exited" /\ UnregisteredCases(AllTokens)

----------------------------------------------------------------------------
(* Properties of the naming check. *)

NamingChecked == pc \in {"checkValueFormatConsistency", "checkCompleteness", "checkQuality",
                        "printResults", "exit", "exited"}

LayerNames == {s_primitive, s_semantic}

StartsWithLayer(t) == Len(t.path) > 0 /\ t.path[1] \in LayerNames

NamingFindings(tokenPath) ==
  CountIn(results.critical, LAMBDA f : f = Finding("PathLayerPrefix", tokenPath, <<>>))

NamingPasses ==
  CountIn(results.pass, LAMBDA f : f.msg \in {"NoLayerPrefixes", "NamingConvention"})

NamingRule(tokens) ==
  /\ \A t \in tokens :
       NamingFindings(getTokenPath(t.path)) =
         Cardinality({u \in tokens : u.path = t.path /\ StartsWithLayer(u)})
  /\ NamingPasses = IF \E t \in tokens : StartsWithLayer(t) THEN 0 ELSE 2

\* C16: once the naming check has run, every token of either tree whose
\* first path segment is primitive or semantic, a path of that one segment
\* included, has exactly one critical naming violation, every other token
\* has none, and the two naming passes are recorded iff no token has one.
LayerSegmentFlagged == NamingChecked => NamingRule(AllTokens)

\* the tokens whose path is the layer name alone escape the check
OneSegmentEscapes(tokens) ==
  \E t \in tokens : /\ Len(t.path) = 1
                    /\ StartsWithLayer(t)
                    /\ NamingFindings(getTokenPath(t.path)) = 0

OneSegmentLayerName == NamingChecked /\ OneSegmentEscapes(AllTokens)

----------------------------------------------------------------------------
(* Properties of the scale completeness check. *)

CompletenessChecked == pc \in {"checkQuality", "printResults", "exit", "exited"}

\* the third segments of the primitive token paths under color.<category>
StepsUnder(tokens, category) ==
  {t.path[3] : t \in {u \in tokens : /\ u.layer = "primitive"
                                     /\ Len(u.path) >= 3
                                     /\ u.path[1] = s_color
                                     /\ u.path[2] = category}}

MissingSteps(steps) == SelectSeq(expectedScales, LAMBDA s : s \notin steps)

ScalePasses(category) ==
  CountIn(results.pass,
          LAMBDA f : f = Finding("ScaleComplete", s_color \o <<".">> \o category, <<>>))

ScaleWarnings(category, missing) ==
  CountIn(results.warnings,
          LAMBDA f : f = Finding("ScaleIncomplete", s_color \o <<".">> \o category,
                                 StrList(missing)))

ScaleFindings(category) ==
  CountIn(results.pass \o results.warnings,
          LAMBDA f : /\ f.msg \in {"ScaleComplete", "ScaleIncomplete"}
                     /\ f.at = s_color \o <<".">> \o category)

ScaleCategoryRule(category, missing) ==
  /\ ScaleFindings(category) = 1
  /\ ScalePasses(category) = IF missing = <<>> THEN 1 ELSE 0
  /\ ScaleWarnings(category, missing) = IF missing = <<>> THEN 0 ELSE 1

ScaleRule(tokens) ==
  \A i \in 1..Len(colorCategories) :
    ScaleCategoryRule(colorCategories[i], MissingSteps(StepsUnder(tokens, colorCategories[i])))

\* C17: once the completeness check has run, each of the six colour
\* categories has exactly one scale finding: a pass when every step 100..1200
\* is the third segment of a primitive token path under color.<category>,
\* otherwise a warning that lists exactly the missing steps in scale order.
OneScaleFindingPerCategory == CompletenessChecked => ScaleRule(AllTokens)

ScaleCases(tokens) ==
  /\ MissingSteps(StepsUnder(tokens, s_neutral)) = <<s_700>>
  /\ ScaleWarnings(s_neutral, <<s_700>>) = 1
  /\ MissingSteps(StepsUnder(tokens, s_error)) = <<s_300, s_1100>>
  /\ ScaleWarnings(s_error, <<s_300, s_1100>>) = 1
  /\ MissingSteps(StepsUnder(tokens, s_primary)) = <<>>
  /\ ScalePasses(s_primary) = 1

\* a finished run over primitives with eleven of the twelve neutral steps,
\* ten of the error steps and all twelve primary steps
SingleStepMissing == pc = "exited" /\ ScaleCases(AllTokens)

----------------------------------------------------------------------------
(* Properties of the opacity range. *)

\* the primitive number tokens under opacity.* with a numeric value
OpacityNumbers(tokens) ==
  {t \in tokens : /\ t.layer = "primitive"
                  /\ Len(t.path) >= 2
                  /\ t.path[1] = s_opacity
                  /\ Get(t.token, k_type) = Str(s_number)
                  /\ Get(t.token, k_value).t = "number"}

\* value < 0 or value > 1, on the exact rational
BeyondUnit(value) == value.num < 0 \/ value.num > value.den

RangeFindings(bucket, t) ==
  CountIn(bucket,
          LAMBDA f : f = Finding("OpacityRange", getTokenPath(t.path),
                                 <<Get(t.token, k_value)>>))

OpacityAsWarningRule(tokens) ==
  \A t \in OpacityNumbers(tokens) :
    /\ RangeFindings(results.warnings, t) = IF BeyondUnit(Get(t.token, k_value)) THEN 1 ELSE 0
    /\ RangeFindings(results.critical, t) = 0

\* C18: at the end of a full run a primitive number token under opacity.*
\* with the value 0 or 1 has no range finding, and one with a value below 0
\* or above 1 has exactly one, a warning and not a critical.
OpacityRangeIsWarning == pc = "exited" => OpacityAsWarningRule(AllTokens)

OpacityAsCriticalRule(tokens) ==
  \A t \in OpacityNumbers(tokens) :
    /\ RangeFindings(results.critical, t) = IF BeyondUnit(Get(t.token, k_value)) THEN 1 ELSE 0
    /\ RangeFindings(results.warnings, t) = 0

\* C18, amended: at the end of a full run a primitive number token under
\* opacity.* with a value from 0 to 1, both ends included, has no range
\* finding, and one with a value below 0 or above 1 has exactly one, a
\* critical and not a warning.
OpacityRangeIsCritical == pc = "exited" => OpacityAsCriticalRule(AllTokens)

OpacityCases(tokens) ==
  /\ \E t \in tokens : Get(t.token, k_value) = Num(0) /\ RangeFindings(results.critical, t) = 0
  /\ \E t \in tokens : Get(t.token, k_value) = Num(1) /\ RangeFindings(results.critical, t) = 0
  /\ \E t \in tokens : /\ Get(t.token, k_value) = Frac(-1, 10000)
                       /\ RangeFindings(results.critical, t) = 1
  /\ \E t \in tokens : /\ Get(t.token, k_value) = Frac(10001, 10000)
                       /\ RangeFindings(results.critical, t) = 1

\* a finished run over opacity tokens of 0, 1, -0.0001 and 1.0001
OpacityEndsAudited == pc = "exited" /\ exitCode = 1 /\ OpacityCases(OpacityNumbers(AllTokens))

----------------------------------------------------------------------------
(* Properties of the required fields. *)

ComplianceChecked ==
  pc \in {"checkReferenceIntegrity", "checkNamingConventions", "checkValueFormatConsistency",
          "checkCompleteness", "checkQuality", "printResults", "exit", "exited"}

\* the tokens that declare no kind
Kindless(tokens) == {t \in tokens : Get(t.token, k_type) = Undefined}

MissingTypeFindings(tokenPath) ==
  CountIn(results.critical, LAMBDA f : f = Finding("MissingType", tokenPath, <<>>))

TypePasses == CountIn(results.pass, LAMBDA f : f.msg = "AllHaveType")

MissingTypeRule(tokens, kindless) ==
  /\ \A t \in tokens :
       MissingTypeFindings(getTokenPath(t.path)) =
         Cardinality({u \in kindless : u.path = t.path})
  /\ results.stats.missingType = Cardinality(kindless)
  /\ TypePasses = IF kindless = {} THEN 1 ELSE 0

\* C19: once the compliance check has run, each token of either tree that
\* declares no kind has exactly one critical 'missing kind' finding, a token
\* that declares one has none, the missing-type count is the number of tokens
\* without a kind, and the 'all tokens have a kind' pass is recorded iff that
\* count is zero.
MissingKindCounted == ComplianceChecked => MissingTypeRule(AllTokens, Kindless(AllTokens))

\* a finished run over a primitive and a semantic token without a kind, and
\* tokens with one
TwoKindlessTokens ==
  /\ pc = "exited"
  /\ results.stats.missingType = 2
  /\ \E t \in Kindless(AllTokens) : t.layer = "primitive"
  /\ \E t \in Kindless(AllTokens) : t.layer = "semantic"
  /\ Kindless(AllTokens) # AllTokens

\* the tokens without a description
Undescribed(tokens) == {t \in tokens : Get(t.token, k_description) = Undefined}

\* the tokens whose description is a text of fewer characters than the minimum
Terse(tokens) ==
  {t \in tokens : /\ Get(t.token, k_description).t = "string"
                  /\ Len(Get(t.token, k_description).s) > 0
                  /\ Len(Get(t.token, k_description).s) < MinDescriptionLength}

DescriptionWarnings(msg, tokenPath) ==
  CountIn(results.warnings, LAMBDA f : f.msg = msg /\ f.at = tokenPath)

DescriptionRule(tokens, undescribed, terse) ==
  /\ \A t \in tokens :
       /\ DescriptionWarnings("MissingDescription", getTokenPath(t.path)) =
            Cardinality({u \in undescribed : u.path = t.path})
       /\ DescriptionWarnings("DescriptionTooShort", getTokenPath(t.path)) =
            Cardinality({u \in terse : u.path = t.path})
  /\ results.stats.missingDescription = Cardinality(undescribed)

\* C20: once the compliance check has run, each token of either tree without
\* a description has exactly one 'missing description' warning and is counted
\* in the missing-description count, and each token of either tree whose
\* description is shorter than 10 characters has exactly one 'too short'
\* warning.
DescriptionsChecked ==
  ComplianceChecked => DescriptionRule(AllTokens, Undescribed(AllTokens), Terse(AllTokens))

\* a checked semantic token with a description of 5 characters and no
\* 'too short' warning
TerseSemanticUnwarned ==
  /\ ComplianceChecked
  /\ \E t \in Terse(SemanticTokens) :
       DescriptionWarnings("DescriptionTooShort", getTokenPath(t.path)) = 0

----------------------------------------------------------------------------
(* Properties of the recursion of the reference check. *)

CycleCases(tokens) ==
  /\ \E t \in tokens : getTokenPath(t.path) \in Targets(tokens, getTokenPath(t.path))
  /\ \E t \in tokens :
       \E u \in tokens : /\ t.path # u.path
                         /\ getTokenPath(u.path) \in Targets(tokens, getTokenPath(t.path))
                         /\ getTokenPath(t.path) \in Targets(tokens, getTokenPath(u.path))

----------------------------------------------------------------------------
(* Properties of the traversal. *)

RECURSIVE AllNodes(_, _)
\* every node of a tree with the keys that lead to it, metadata keys and the
\* keys below a token included
AllNodes(node, path) ==
  {[path |-> path, node |-> node]} \cup
  UNION {AllNodes(ObjectEntries(node)[i].v, Append(path, ObjectEntries(node)[i].k)) :
           i \in 1..Len(ObjectEntries(node))}

IsPrefix(p, q) == Len(p) < Len(q) /\ SubSeq(q, 1, Len(p)) = p

\* a node that holds the value field, below the root, reached through keys
\* that are not metadata keys and through no other node that holds the field
IsTokenNode(nodes, n) ==
  /\ Len(n.path) > 0
  /\ \A i \in 1..Len(n.path) : Head(n.path[i]) # "$"
  /\ IsObjectLike(n.node)
  /\ HasProp(n.node, k_value)
  /\ \A m \in nodes : (Len(m.path) > 0 /\ IsPrefix(m.path, n.path)) => ~HasProp(m.node, k_value)

TokenNodes(nodes) == {[path |-> n.path, token |-> n.node] : n \in {m \in nodes : IsTokenNode(nodes, m)}}

VisitedOnce(visits, expected) ==
  /\ {visits[i] : i \in 1..Len(visits)} = expected
  /\ Len(visits) = Cardinality(expected)

TraversalRule(tree) == VisitedOnce(TokenVisits(tree, <<>>), TokenNodes(AllNodes(tree, <<>>)))

\* the traversals of each tree made by the compliance check, lines 233-298
ComplianceTraversals == [primitive |-> 4, semantic |-> 3]

LayerRule(primitives, semantics) ==
  /\ results.stats.primitiveTokens = ComplianceTraversals.primitive * primitives
  /\ results.stats.semanticTokens = ComplianceTraversals.semantic * semantics
  /\ results.stats.totalTokens = results.stats.primitiveTokens + results.stats.semanticTokens

\* C22: a traversal of a tree hands to its callback, exactly once each, the
\* nodes that hold the value field and are reached from the root through one
\* or more keys, none of them a metadata key, and through no other such node,
\* each with the keys from the root as its path; and it counts each of them
\* for the layer of the call, as the counters show once the compliance check
\* has made its traversals.
TraversalVisitsTokens ==
  pc = "checkReferenceIntegrity" =>
    /\ TraversalRule(primitiveTokens)
    /\ TraversalRule(semanticTokens)
    /\ LayerRule(Len(TokenVisits(primitiveTokens, <<>>)), Len(TokenVisits(semanticTokens, <<>>)))

TraversalCases(nodes, visited) ==
  /\ \E n \in nodes : /\ \E i \in 1..Len(n.path) : Head(n.path[i]) = "$"
                      /\ IsObjectLike(n.node) /\ HasProp(n.node, k_value)
                      /\ n.path \notin visited
  /\ \E n \in nodes : /\ \A i \in 1..Len(n.path) : Head(n.path[i]) # "$"
                      /\ IsObjectLike(n.node) /\ HasProp(n.node, k_value)
                      /\ n.path \notin visited
  /\ \E n \in nodes : n.node.t = "array" /\ \E p \in visited : IsPrefix(n.path, p)

\* the compliance check has run on trees with a node that holds a value
\* below a metadata key, one below a token, and a token in a sequence
TraversalCasesMet ==
  /\ pc = "checkReferenceIntegrity"
  /\ TraversalCases(AllNodes(primitiveTokens, <<>>),
                    {t.path : t \in TokensOf(primitiveTokens, "primitive")})
  /\ \E t \in SemanticTokens : t.path = <<s_duration, s_slow>>

----------------------------------------------------------------------------
(* Properties of the collector. *)

\* the six checkers in the order of their calls, lines 709-714, and the
\* aggregator, line 716
CallOrder ==
  <<"checkDTCGCompliance", "checkReferenceIntegrity", "checkNamingConventions",
    "checkValueFormatConsistency", "checkCompleteness", "checkQuality", "printResults">>

CheckerLabels == {CallOrder[i] : i \in 1..Len(CallOrder) - 1}

\* the checker called at a label, applied to a collector
CheckerAt(label, res) ==
  CASE label = "checkDTCGCompliance" -> checkDTCGCompliance(primitiveTokens, semanticTokens, res)
    [] label = "checkReferenceIntegrity" ->
         checkReferenceIntegrity(primitiveTokens, semanticTokens, res)
    [] label = "checkNamingConventions" ->
         checkNamingConventions(primitiveTokens, semanticTokens, res)
    [] label = "checkValueFormatConsistency" ->
         checkValueFormatConsistency(primitiveTokens, semanticTokens, res)
    [] label = "checkCompleteness" -> checkCompleteness(primitiveTokens, semanticTokens, res)
    [] label = "checkQuality" -> checkQuality(primitiveTokens, semanticTokens, res)

\* what a call has added to the collector: the findings appended to each
\* bucket and the increase of each counter
Added(before, after) ==
  [pass |-> SubSeq(after.pass, Len(before.pass) + 1, Len(after.pass)),
   warnings |-> SubSeq(after.warnings, Len(before.warnings) + 1, Len(after.warnings)),
   critical |-> SubSeq(after.critical, Len(before.critical) + 1, Len(after.critical)),
   stats |-> [k \in DOMAIN after.stats |-> after.stats[k] - before.stats[k]]]

Marker == Finding("Marker", <<>>, <<>>)

\* a collector that differs in every bucket and in the counters outside a set
Altered(res, kept) ==
  [pass |-> <<Marker>> \o res.pass,
   warnings |-> <<Marker>> \o res.warnings,
   critical |-> <<Marker>> \o res.critical,
   stats |-> [k \in DOMAIN res.stats |-> IF k \in kept THEN res.stats[k] ELSE res.stats[k] + 1]]

SameAdded(label, res, altered) ==
  Added(res, results') = Added(altered, CheckerAt(label, altered).res)

InCallOrder ==
  \A i \in 2..Len(CallOrder) : pc' = CallOrder[i] => pc = CallOrder[i - 1]

\* C23: what a checker adds to the collector does not depend on what the
\* collector holds when the checker is called, buckets or counters, and the
\* aggregator is reached from the last of the six checkers called in their
\* order.
NoCheckerReadsCollector ==
  [][/\ InCallOrder
     /\ pc \in CheckerLabels => SameAdded(pc, results, Altered(results, {}))]_vars

\* the counters a checker tests for its closing passes, lines 300, 303, 358
OwnCounters(label) ==
  CASE label = "checkDTCGCompliance" -> {"missingType", "missingDescription"}
    [] label = "checkReferenceIntegrity" -> {"invalidReferences"}
    [] OTHER -> {}

\* C23, amended: what a checker adds to the collector depends on nothing the
\* collector holds when the checker is called but the counters the checker
\* itself tests for its closing passes (missingType and missingDescription
\* in the compliance check, invalidReferences in the reference check), which
\* are zero at that call; no checker's findings depend on a bucket; and the
\* aggregator is reached from the last of the six checkers called in their
\* order.
CheckersReadOwnCounters ==
  [][/\ InCallOrder
     /\ pc \in CheckerLabels =>
          /\ \A k \in OwnCounters(pc) : results.stats[k] = 0
          /\ SameAdded(pc, results, Altered(results, OwnCounters(pc)))]_vars

\* the six checkers have run; the reference check recorded its closing pass
\* on a collector whose critical bucket was not empty, and the compliance
\* check withheld its own
ClosingPassesDecided ==
  /\ pc = "printResults"
  /\ results.stats.missingType > 0
  /\ results.stats.invalidReferences = 0
  /\ CountIn(results.pass, LAMBDA f : f.msg = "AllReferencesValid") = 1
  /\ CountIn(results.pass, LAMBDA f : f.msg = "AllHaveType") = 0

\* the earlier contents of a bucket begin its later contents
Extends(later, earlier) ==
  Len(earlier) <= Len(later) /\ SubSeq(later, 1, Len(earlier)) = earlier

\* C24: in every step of a run each bucket keeps its earlier contents as a
\* prefix of its later contents, no counter of the stats record decreases,
\* and the aggregator step changes neither the buckets nor the stats.
BucketsAppendOnly ==
  [][/\ Extends(results'.pass, results.pass)
     /\ Extends(results'.warnings, results.warnings)
     /\ Extends(results'.critical, results.critical)
     /\ \A k \in DOMAIN results.stats : results.stats[k] <= results'.stats[k]
     /\ pc = "printResults" => results' = results]_vars

\* the aggregator has run on buckets of more than one finding each
BucketsGrown == pc = "exit" /\ Passes > 1 /\ Warnings > 1 /\ Criticals > 1

----------------------------------------------------------------------------
(* Properties of the interactive states. *)

\* the required states that end the path of some token
StatesEnding(tokens) ==
  {statePatterns[i] : i \in {j \in 1..Len(statePatterns) :
                               \E t \in tokens : t.path[Len(t.path)] = statePatterns[j]}}

StatesPasses == CountIn(results.pass, LAMBDA f : f.msg = "InteractiveStatesDefined")

StatesWarnings == CountIn(results.warnings, LAMBDA f : f.msg = "NoInteractiveStates")

StatesRule(ending) ==
  /\ StatesPasses + StatesWarnings = 1
  /\ StatesPasses = 1 => Cardinality(ending) = Len(statePatterns)
  /\ ending = {} => StatesWarnings = 1

\* C25: once the completeness check has run, exactly one of the two findings
\* on interactive states is recorded; the pass is recorded only when each of
\* default, hover and pressed ends the path of some semantic token, and the
\* warning is recorded when none of them ends any.
StatesPassNeedsEveryState == CompletenessChecked => StatesRule(StatesEnding(SemanticTokens))

\* the pass recorded on semantic tokens that end in one required state only
StatesPassOnOneState ==
  /\ CompletenessChecked
  /\ StatesPasses = 1
  /\ Cardinality(StatesEnding(SemanticTokens)) = 1

----------------------------------------------------------------------------
(* Properties of the state suffix. *)

\* the tokens whose path ends in a state name and has not 4 segments
Misplaced(tokens) ==
  {t \in tokens : includes(states, t.path[Len(t.path)]) /\ Len(t.path) # StateDepth}

StateSuffixFindings(bucket, tokenPath) ==
  CountIn(bucket, LAMBDA f : f.msg = "StateSuffixDepth" /\ f.at = tokenPath)

StateSuffixRule(tokens, misplaced) ==
  \A t \in tokens :
    /\ StateSuffixFindings(results.warnings, getTokenPath(t.path)) =
         Cardinality({u \in misplaced : u.path = t.path})
    /\ StateSuffixFindings(results.critical, getTokenPath(t.path)) = 0

\* C26: once the naming check has run, each token of either tree whose path
\* ends in one of the eight state names and has not exactly 4 segments has
\* exactly one state-suffix warning, every other token has none, and no
\* token has a critical for this rule.
StateSuffixWarned == NamingChecked => StateSuffixRule(AllTokens, Misplaced(AllTokens))

\* a checked primitive token of 5 segments that ends in a state name and has
\* no state-suffix warning
PrimitiveSuffixUnwarned ==
  /\ NamingChecked
  /\ \E t \in Misplaced(AllTokens) :
       /\ t.layer = "primitive"
       /\ StateSuffixFindings(results.warnings, getTokenPath(t.path)) = 0

----------------------------------------------------------------------------
(* The colour validator's table                                            *)

\* a number between lo and hi, both ends included
Within(v, lo, hi) == v.t = "number" /\ lo * v.den <= v.num /\ v.num <= hi * v.den

\* '#' and six hex digits
SixDigitHex(v) ==
  /\ v.t = "string"
  /\ Len(v.s) = 7
  /\ v.s[1] = "#"
  /\ \A i \in 2..7 : v.s[i] \in HexDigits

Has(v, key) == v.t = "object" /\ \E i \in 1..Len(v.e) : v.e[i].k = key

Field(v, key) == v.e[CHOOSE i \in 1..Len(v.e) : v.e[i].k = key].v

\* the rows of the table before the component ranges
ColorShapeCritical(v) ==
  \/ v.t # "object"
  \/ \E key \in {s_colorSpace, s_components, s_alpha, s_hex} : ~Has(v, key)
  \/ Field(v, s_colorSpace) # Str(s_hsl)
  \/ Field(v, s_components).t # "array"
  \/ Len(Field(v, s_components).a) # 3

\* the hex of a value, where it has one
HexOf(v) == IF Has(v, s_hex) THEN Field(v, s_hex) ELSE Undefined

ColorCritical(v, hexRow) ==
  \/ ColorShapeCritical(v)
  \/ ~Within(Field(v, s_alpha), 0, 1)
  \/ ~hexRow

Offending(v) ==
  LET c == Field(v, s_components).a
  IN  (IF Within(c[1], 0, 360) THEN 0 ELSE 1) + (IF Within(c[2], 0, 100) THEN 0 ELSE 1)
      + (IF Within(c[3], 0, 100) THEN 0 ELSE 1)

ColorCalled ==
  /\ pc = "returned"
  /\ Len(TokenVisits(primitiveTokens, <<>>)) = 1
  /\ StrictEqStr(Get(TheToken(primitiveTokens).token, k_type), s_color)

ColorTableRule(v, hexRow) ==
  /\ returned = ~ColorCritical(v, hexRow)
  /\ Criticals = (IF ColorCritical(v, hexRow) THEN 1 ELSE 0)
  /\ Warnings = (IF ColorShapeCritical(v) THEN 0 ELSE Offending(v))
  /\ Passes = 0

\* C27: the colour validator classifies a value as the table states: a string,
\* a non-object, a missing field, a colorSpace other than hsl, components that
\* are not three, an alpha that is not a number in [0,1] or a hex that is not
\* '#' and six hex digits each yield one critical and false; each component out
\* of its range yields a warning and alone leaves the result true; the result
\* is true iff no critical row holds.
ColorTableHolds == ColorCalled => ColorTableRule(Argument(primitiveTokens), SixDigitHex(HexOf(Argument(primitiveTokens))))

\* C27, what the validator does instead: the hex row is what the pattern's
\* test accepts, which turns its argument into a string first.
ColorTableAsTested == ColorCalled => ColorTableRule(Argument(primitiveTokens), HexTest(HexOf(Argument(primitiveTokens))))

\* a colour with out-of-range components and nothing else wrong has returned
\* true with its warnings, and one with a hex of five digits false
ColorRowsMet ==
  /\ ColorCalled
  /\ returned = TRUE
  /\ Warnings = 3

----------------------------------------------------------------------------
(* What a call of a value validator leaves behind                          *)

\* C28: a call of a value validator (colour, dimension, typography, shadow)
\* appends at most one critical finding, and it returns false iff it has
\* appended a critical; a call that has appended only warnings returns true.
ValidatorOneCritical ==
  /\ Criticals <= 1
  /\ pc = "returned" =>
       /\ returned \in BOOLEAN
       /\ returned = FALSE <=> Criticals = 1
       /\ (Warnings > 0 /\ Criticals = 0) => returned = TRUE

\* the shadow validator has returned from a list of two layers that both lack
\* required properties
TwoOffendingLayers ==
  /\ pc = "returned"
  /\ Len(TokenVisits(semanticTokens, <<>>)) = 1
  /\ Argument(semanticTokens) = Arr(<<ShadowWithoutColor, Obj(<<>>)>>)
  /\ returned = FALSE

----------------------------------------------------------------------------
(* The score against the verdict                                           *)

\* the passes a run can add: one per colour category (line 530) and one at
\* each of the other thirteen places that add a pass
MostPasses == Len(colorCategories) + 13

\* with that many passes at most, one finding keeps the score below 100
IssueLowersScore ==
  \A p \in 0..MostPasses : \A i \in 1..MostPasses : MathRound(100 * p, p + i) < 100

\* C29: the score and the verdict agree: in the summary the score is 100 iff
\* the verdict is the fully ready one (warning and critical buckets both
\* empty), and the score always lies in 0..100.
ScoreAgreesWithVerdict ==
  /\ IssueLowersScore
  /\ Passes <= MostPasses
  /\ Reported =>
       /\ score = 100 <=> verdict = "PRODUCTION READY"
       /\ score = 100 <=> (Warnings = 0 /\ Criticals = 0)
       /\ score \in 0..100
  /\ ~Reported => score = NotYet

\* a finished run without a warning or a critical finding
FullyReadyRun ==
  /\ pc = "exited"
  /\ verdict = "PRODUCTION READY"
  /\ score = 100
  /\ Passes > 1

----------------------------------------------------------------------------
(* The checks the score divides by                                         *)

CircularPasses == CountIn(results.pass, LAMBDA f : f.msg = "NoCircularReferences")

\* C30: when the summary runs the pass bucket is not empty, whatever the two
\* trees are: the reference check has added its closing pass.  The number of
\* checks the score divides by is therefore never zero, and the score of 0
\* for an empty collector is never taken.
PassBucketNonEmpty ==
  /\ NamingChecked \/ ReferencesChecked => CircularPasses = 1
  /\ pc \in {"printResults", "exit", "exited"} => Passes > 0 /\ TotalChecks > 0
  /\ Reported => score = MathRound(100 * Passes, TotalChecks)

\* the summary is about to run on two empty trees
EmptyTreesSummarised ==
  /\ pc = "printResults"
  /\ primitiveTokens = Obj(<<>>)
  /\ semanticTokens = Obj(<<>>)
  /\ Passes > 0

============================================================================
